---------------------------- MODULE Spec2Model ----------------------------
(* Recipe import pipeline of meal-together (backend/app):                  *)
(*   utils/url_validator.py, utils/http_fetcher.py,                        *)
(*   services/circuit_breaker.py, services/llm_service.py,                 *)
(*   services/recipe_parser.py, schemas/recipe_import.py.                  *)
(* One importer walks parse_recipe statement by statement; the circuit     *)
(* breaker row and the import cache table are the shared, persisted state. *)
EXTENDS Integers, Sequences, FiniteSets, TLC


\* ------------------------------------------------------------------------
\* Bounds of the model (not program constants)
\* ------------------------------------------------------------------------
MaxTime == 16          \* the clock stops advancing here (minutes)
TickMinutes == 8       \* granularity of the clock (minutes)
MaxFailures == 6       \* cap on consecutive_failures kept by the guards
LongTick == 721        \* a coarse clock step, about half a day (minutes)
MaxLongTime == 1441    \* the coarse clock stops advancing past this (minutes)
MaxNumber == 30        \* the largest number written in a text
MaxStepList == 3          \* steps in a list handed to derive_timers_from_steps
MaxSeconds == 4           \* the cooking-timer clock stops here
MaxDuration == 3          \* longest cooking timer a request starts, seconds

\* ------------------------------------------------------------------------
\* Program constants
\* ------------------------------------------------------------------------
FAILURE_THRESHOLD == 5
COOLDOWN_MINUTES == 15
MAX_REDIRECTS == 3
MAX_SIZE == 5242880
CHUNK_SIZE == 8192
MAX_INGREDIENTS == 50
MAX_STEPS == 30
TTL_MINUTES == 1440

\* ------------------------------------------------------------------------
\* url_validator.py: addresses and networks
\* An address is kept as its 16-bit groups (2 for IPv4, 8 for IPv6); a text
\* that ipaddress.ip_address() rejects has family "bad".
\* ------------------------------------------------------------------------
IP4(a, b, c, d) == [family |-> "v4", groups |-> <<a * 256 + b, c * 256 + d>>]
IP6(g) == [family |-> "v6", groups |-> g]
MalformedIp == [family |-> "bad", groups |-> <<>>]

Net(addr, prefix) == [addr |-> addr, prefix |-> prefix]

PRIVATE_RANGES_V4 ==
    { Net(IP4(127, 0, 0, 0), 8),
      Net(IP4(10, 0, 0, 0), 8),
      Net(IP4(172, 16, 0, 0), 12),
      Net(IP4(192, 168, 0, 0), 16),
      Net(IP4(169, 254, 0, 0), 16) }

PRIVATE_RANGES_V6 ==
    { Net(IP6(<<0, 0, 0, 0, 0, 0, 0, 1>>), 128),
      Net(IP6(<<64512, 0, 0, 0, 0, 0, 0, 0>>), 7),      \* fc00::/7
      Net(IP6(<<65152, 0, 0, 0, 0, 0, 0, 0>>), 10) }    \* fe80::/10

BLOCKED_DOMAINS ==
    { "localhost", "metadata.google.internal", "169.254.169.254",
      "metadata", "metadata.azure.com" }

RECURSIVE Pow2(_)
Pow2(n) == IF n = 0 THEN 1 ELSE 2 * Pow2(n - 1)

\* `ip in net`: the first `prefix` bits of the two addresses agree.
RECURSIVE PrefixMatch(_, _, _)
PrefixMatch(g, n, prefix) ==
    IF prefix = 0 \/ g = <<>> THEN TRUE
    ELSE IF prefix >= 16
         THEN Head(g) = Head(n) /\ PrefixMatch(Tail(g), Tail(n), prefix - 16)
         ELSE (Head(g) \div Pow2(16 - prefix)) = (Head(n) \div Pow2(16 - prefix))

InNetwork(ip, net) == PrefixMatch(ip.groups, net.addr.groups, net.prefix)

is_private_ip(ip) ==
    IF ip.family = "bad" THEN TRUE          \* ValueError: reject as unsafe
    ELSE IF ip.family = "v4"
         THEN \E net \in PRIVATE_RANGES_V4 : InNetwork(ip, net)
         ELSE \E net \in PRIVATE_RANGES_V6 : InNetwork(ip, net)

\* ------------------------------------------------------------------------
\* url_validator.py: URLs, name resolution and validate_url_safe
\* A URL is what urlparse() makes of it (scheme, hostname, path) together
\* with the verdict of validators.url() on its text.
\* ------------------------------------------------------------------------
Url(scheme, host, path, valid) ==
    [scheme |-> scheme, host |-> host, path |-> path, valid |-> valid]

uRecipe  == Url("https", "example.com", "/recipe", TRUE)
uWww     == Url("https", "www.example.com", "/recipe", TRUE)
uEvil    == Url("http", "evil.com", "/", TRUE)
uLocal   == Url("http", "LOCALHOST", "/x", TRUE)
uMeta    == Url("http", "169.254.169.254", "/latest/meta-data", TRUE)
uLoop    == Url("http", "127.0.0.1", "/x", TRUE)
uFtp     == Url("ftp", "example.com", "/file", TRUE)
uNoHost  == Url("http", "", "/x", TRUE)
uGarbage == Url("", "", "not a url", FALSE)
uAzure   == Url("http", "metadata.azure.com", "/", TRUE)
uRebind  == Url("http", "rebind.example", "/", TRUE)   \* its DNS answer alternates
uPancakes == Url("https", "example.com", "/pancakes", TRUE)   \* a page that does not change

Urls == { uRecipe, uWww, uEvil, uLocal, uMeta, uLoop, uFtp, uNoHost, uGarbage, uAzure }

\* str.lower() on the host names of the model
Lower(host) == IF host = "LOCALHOST" THEN "localhost" ELSE host

Public4     == IP4(93, 184, 216, 34)
Public172   == IP4(172, 32, 0, 1)
Private10   == IP4(10, 0, 0, 5)
Private172  == IP4(172, 31, 255, 254)
Private192  == IP4(192, 168, 1, 1)
Loopback4   == IP4(127, 0, 0, 1)
LinkLocal4  == IP4(169, 254, 169, 254)
Public6     == IP6(<<9734, 10240, 544, 1, 0, 0, 0, 1>>)       \* 2606:2800:220:1::1
Loopback6   == IP6(<<0, 0, 0, 0, 0, 0, 0, 1>>)                 \* ::1
Ula6        == IP6(<<64768, 3778, 0, 0, 0, 0, 0, 596>>)        \* fd00:ec2::254
LinkLocal6  == IP6(<<65152, 0, 0, 0, 0, 0, 0, 1>>)             \* fe80::1

NoAddress   == [family |-> "none", groups |-> <<>>]                            \* no connection made
Resolved(addrs) == [ok |-> TRUE, addrs |-> addrs]
GaiError == [ok |-> FALSE, addrs |-> <<>>]      \* socket.gaierror

\* What socket.getaddrinfo(host, None, AF_UNSPEC, SOCK_STREAM) may answer:
\* the exception, or the list of resolved addresses.
DnsAnswers(host) ==
    IF host = "127.0.0.1" THEN { Resolved(<<Loopback4>>) }
    ELSE IF host = "169.254.169.254" THEN { Resolved(<<LinkLocal4>>) }
    ELSE IF host = "metadata.azure.com" THEN { Resolved(<<Public4>>) }
    ELSE IF host = "rebind.example" THEN { Resolved(<<Public4>>), Resolved(<<Loopback4>>) }
    ELSE IF host \in { "example.com", "www.example.com" }
         THEN { GaiError, Resolved(<<Public4, Public6>>), Resolved(<<Public172>>) }
    ELSE IF host = "evil.com"
         THEN { Resolved(<<Private10>>), Resolved(<<Public4, Ula6>>),
                Resolved(<<Public6, Loopback4>>), Resolved(<<MalformedIp>>),
                Resolved(<<Public4, LinkLocal6>>), Resolved(<<Private172>>),
                Resolved(<<Private192, Public4>>),
                Resolved(<<Public4, Public6, LinkLocal4>>),
                Resolved(<<Loopback6>>) }
    ELSE { GaiError }

\* for family, _, _, _, sockaddr in addr_info: if is_private_ip(...): return
resolves_to_private_first_only(addrs) ==
    IF addrs = <<>> THEN FALSE ELSE is_private_ip(Head(addrs))

RECURSIVE resolves_to_private(_)
resolves_to_private(addrs) ==
    IF addrs = <<>> THEN FALSE
    ELSE IF is_private_ip(Head(addrs)) THEN TRUE
    ELSE resolves_to_private(Tail(addrs))

Verdict(safe, reason) == [safe |-> safe, reason |-> reason]

validate_url_safe(u, answer) ==
    IF ~u.valid THEN Verdict(FALSE, "Invalid URL format")
    ELSE IF u.scheme \notin { "http", "https" }
         THEN Verdict(FALSE, "Scheme not allowed")
    ELSE IF u.host = "" THEN Verdict(FALSE, "No hostname in URL")
    ELSE IF Lower(u.host) \in BLOCKED_DOMAINS
         THEN Verdict(FALSE, "Domain is blocked")
    ELSE IF ~answer.ok
         THEN Verdict(FALSE, "Could not resolve hostname")
    ELSE IF resolves_to_private(answer.addrs)
         THEN Verdict(FALSE, "Resolves to private IP")
    ELSE Verdict(TRUE, "OK")

\* ------------------------------------------------------------------------
\* Text. A string is kept as its words and its length in characters
\* (len()); slicing shortens the length. None (a missing optional int) is -1.
\* ------------------------------------------------------------------------
None == -1

\* the decimal numerals of the texts and the numbers they spell
Numerals == { ToString(n) : n \in 0..MaxNumber }
NumeralValue(tok) == CHOOSE n \in 0..MaxNumber : ToString(n) = tok

TokLen(tok) ==
    CASE tok \in Numerals ->
            (IF NumeralValue(tok) < 10 THEN 1 ELSE IF NumeralValue(tok) < 100 THEN 2 ELSE 3)
      [] tok \in { "x", "-" } -> 1
      [] tok \in { "to", "hr" } -> 2
      [] tok \in { "ham", "See", "for", "Mix", "0.5", "tsp", "hrs", "min", "sec" } -> 3
      [] tok \in { "cups", "salt", "Soup", "well", "Bake", "Boil", "Stir", "Step",
                   "hour", "mins", "secs" } -> 4
      [] tok \in { "flour", "Glaze", "large", "sugar", "hours" } -> 5
      [] tok \in { "source", "recipe", "Recipe", "Simmer", "Follow", "Batter",
                   "minute", "second" } -> 6
      [] tok \in { "minutes", "seconds" } -> 7
      [] tok \in { "Pancakes", "Imported" } -> 8
      [] tok \in { "(10 pound)" } -> 10
      [] tok \in { "instructions" } -> 12
      [] tok \in { "https://img.example.com/p.jpg" } -> 29
      [] OTHER -> 1

RECURSIVE SumLen(_)
SumLen(toks) == IF toks = <<>> THEN 0 ELSE TokLen(Head(toks)) + SumLen(Tail(toks))

\* the string made of these words, single spaces between them
Txt(toks) == [toks |-> toks,
              chars |-> IF toks = <<>> THEN 0 ELSE SumLen(toks) + Len(toks) - 1]
EmptyText == Txt(<<>>)

truncate_text_no_cut(t, max_length) == t

truncate_text(t, max_length) ==
    IF t.chars = 0 THEN EmptyText
    ELSE IF t.chars > max_length THEN [toks |-> t.toks, chars |-> max_length]
    ELSE t

\* ------------------------------------------------------------------------
\* recipe_parser.py: parse_duration_to_seconds
\* ------------------------------------------------------------------------
\* (\d+(?:\.\d+)?) : the number a word spells, in tenths
IsQuantityNumber(tok) == tok \in Numerals \cup { "0.5" }
Tenths(tok) ==
    IF tok \in Numerals THEN 10 * NumeralValue(tok)
    ELSE IF tok = "0.5" THEN 5
    ELSE 0

HourWords == { "hour", "hr", "hours", "hrs" }
MinuteWords == { "minute", "min", "minutes", "mins" }
SecondWords == { "second", "sec", "seconds", "secs" }

\* leftmost "<n> to|- <n> <unit>" in the words, 0 if none
RangeAt(toks, unitWords) ==
    LET hits == { i \in 1..Len(toks) :
                    /\ i + 3 <= Len(toks)
                    /\ IsQuantityNumber(toks[i])
                    /\ toks[i + 1] \in { "to", "-" }
                    /\ IsQuantityNumber(toks[i + 2])
                    /\ toks[i + 3] \in unitWords }
    IN IF hits = {} THEN 0 ELSE CHOOSE i \in hits : \A j \in hits : i <= j

\* leftmost "<n> <unit>" in the words, 0 if none
SingleAt(toks, unitWords) ==
    LET hits == { i \in 1..Len(toks) :
                    /\ i + 1 <= Len(toks)
                    /\ IsQuantityNumber(toks[i])
                    /\ toks[i + 1] \in unitWords }
    IN IF hits = {} THEN 0 ELSE CHOOSE i \in hits : \A j \in hits : i <= j

\* variant: the low end of the range
RangeSecondsLow(toks, i, multiplier) == (Tenths(toks[i]) * multiplier) \div 10

\* int(midpoint * multiplier), midpoint = (low + high) / 2
RangeSeconds(toks, i, multiplier) ==
    ((Tenths(toks[i]) + Tenths(toks[i + 2])) * multiplier) \div 20

\* int(value * multiplier)
SingleSeconds(toks, i, multiplier) == (Tenths(toks[i]) * multiplier) \div 10

parse_duration_to_seconds(t) ==
    IF t.chars = 0 THEN None
    ELSE IF RangeAt(t.toks, HourWords) > 0
         THEN RangeSeconds(t.toks, RangeAt(t.toks, HourWords), 3600)
    ELSE IF RangeAt(t.toks, MinuteWords) > 0
         THEN RangeSeconds(t.toks, RangeAt(t.toks, MinuteWords), 60)
    ELSE IF RangeAt(t.toks, SecondWords) > 0
         THEN RangeSeconds(t.toks, RangeAt(t.toks, SecondWords), 1)
    ELSE IF SingleAt(t.toks, HourWords) > 0
         THEN SingleSeconds(t.toks, SingleAt(t.toks, HourWords), 3600)
    ELSE IF SingleAt(t.toks, MinuteWords) > 0
         THEN SingleSeconds(t.toks, SingleAt(t.toks, MinuteWords), 60)
    ELSE IF SingleAt(t.toks, SecondWords) > 0
         THEN SingleSeconds(t.toks, SingleAt(t.toks, SecondWords), 1)
    ELSE None

\* ------------------------------------------------------------------------
\* recipe_parser.py: parse_iso8601_duration, parse_duration_flexible
\* A JSON-LD duration value: absent, a number, an ISO-8601 token with its
\* day, hour and minute digits (None where the designator is missing), or
\* free text.
\* ------------------------------------------------------------------------
Absent == [fmt |-> "absent", d |-> None, h |-> None, m |-> None, n |-> 0, text |-> EmptyText]
Iso(d, h, m) == [fmt |-> "iso", d |-> d, h |-> h, m |-> m, n |-> 0, text |-> EmptyText]
Number(n) == [fmt |-> "number", d |-> None, h |-> None, m |-> None, n |-> n, text |-> EmptyText]
Spoken(toks) == [fmt |-> "text", d |-> None, h |-> None, m |-> None, n |-> 0, text |-> Txt(toks)]

parse_iso8601_duration(v) ==
    IF v.fmt # "iso" THEN None
    ELSE LET total_minutes == (IF v.d # None THEN v.d * 24 * 60 ELSE 0)
                            + (IF v.h # None THEN v.h * 60 ELSE 0)
                            + (IF v.m # None THEN v.m ELSE 0)
         IN IF total_minutes > 0 THEN total_minutes ELSE None

parse_duration_flexible(v) ==
    IF v.fmt = "absent" \/ (v.fmt = "number" /\ v.n = 0) THEN None
    ELSE IF v.fmt = "number" THEN v.n
    ELSE IF parse_iso8601_duration(v) # None THEN parse_iso8601_duration(v)
    ELSE IF v.fmt = "text" /\ parse_duration_to_seconds(v.text) # None
         THEN parse_duration_to_seconds(v.text) \div 60
    ELSE None

\* ------------------------------------------------------------------------
\* recipe_parser.py: parse_ingredient_string
\* ------------------------------------------------------------------------
units ==
    { "cup", "cups", "c", "tablespoon", "tablespoons", "tbsp", "tbs", "T",
      "teaspoon", "teaspoons", "tsp", "t", "pint", "pints", "pt", "quart",
      "quarts", "qt", "gallon", "gallons", "gal", "milliliter", "milliliters",
      "ml", "liter", "liters", "l", "pound", "pounds", "lb", "lbs", "ounce",
      "ounces", "oz", "gram", "grams", "g", "kilogram", "kilograms", "kg",
      "can", "cans", "package", "packages", "pkg", "jar", "jars", "box",
      "boxes", "bag", "bags", "bunch", "bunches", "clove", "cloves", "slice",
      "slices", "pinch", "pinches", "dash", "dashes", "whole", "large",
      "medium", "small" }

\* [\d\s/.-]+ : a word made of digits, '/', '.' and '-' only
IsAmount(tok) == tok \in { "1", "2", "8", "10", "20", "30", "0.5", "1/2", "-" }
\* \d+
IsDigits(tok) == tok \in { "1", "2", "8", "10", "20", "30" }
\* \([^)]+\)
IsParenthetical(tok) == tok \in { "(10 pound)" }
\* [a-zA-Z].+ : starts with a letter and has a second character
IsWord(tok) == ~IsAmount(tok) /\ ~IsParenthetical(tok) /\ TokLen(tok) >= 1

IsUnitWord(tok) == tok \in units

\* how many leading words of toks are amounts / unit words
RECURSIVE LeadingAmounts(_)
LeadingAmounts(toks) ==
    IF toks = <<>> \/ ~IsAmount(Head(toks)) THEN 0
    ELSE 1 + LeadingAmounts(Tail(toks))

RECURSIVE LeadingUnits(_)
LeadingUnits(toks) ==
    IF toks = <<>> \/ ~IsUnitWord(Head(toks)) THEN 0
    ELSE 1 + LeadingUnits(Tail(toks))

\* convert_decimal_to_fraction: the first decimal of the quantity, when it
\* lies in one of the bands of decimal_map, is replaced by the fraction
FractionOf(tok) == IF tok = "0.5" THEN "1/2" ELSE tok

convert_decimal_to_fraction(q) ==
    IF q.chars = 0 THEN q
    ELSE Txt([i \in 1..Len(q.toks) |-> FractionOf(q.toks[i])])

Split(quantity, name) == [quantity |-> quantity, name |-> name]

Rest(t, k) == [toks |-> SubSeq(t.toks, k + 1, Len(t.toks)),
               chars |-> t.chars - Txt(SubSeq(t.toks, 1, k)).chars - 1]

parse_ingredient_string_never_splits(t) ==
    Split(EmptyText, t)

parse_ingredient_string(t) ==
    IF t.chars = 0 THEN Split(EmptyText, EmptyText)
    ELSE
    LET n == Len(t.toks)
        amounts == LeadingAmounts(t.toks)
        unitRun == LeadingUnits(SubSeq(t.toks, amounts + 1, n))
        \* the tail (.+) must keep at least one word
        unitsTaken == IF amounts + unitRun = n THEN unitRun - 1 ELSE unitRun
    IN  IF n >= 3 /\ IsDigits(t.toks[1]) /\ IsParenthetical(t.toks[2])
        THEN Split(Txt(SubSeq(t.toks, 1, 2)), Rest(t, 2))
        ELSE IF amounts >= 1 /\ unitsTaken >= 1
        THEN Split(convert_decimal_to_fraction(Txt(SubSeq(t.toks, 1, amounts + unitsTaken))),
                   Rest(t, amounts + unitsTaken))
        ELSE IF amounts >= 1 /\ amounts < n /\ IsWord(t.toks[amounts + 1])
                /\ Rest(t, amounts).chars >= 2
        THEN Split(convert_decimal_to_fraction(Txt(SubSeq(t.toks, 1, amounts))),
                   Rest(t, amounts))
        ELSE Split(EmptyText, t)

\* ------------------------------------------------------------------------
\* recipe_parser.py: derive_timers_from_steps
\* ------------------------------------------------------------------------
Step(order, instruction, estimated_time) ==
    [order |-> order, instruction |-> instruction, estimated_time |-> estimated_time]
Timer(name, duration, step_order) ==
    [name |-> name, duration |-> duration, step_order |-> step_order]
Ingredient(name, quantity) == [name |-> name, quantity |-> quantity]

\* instruction.split('.')[0] if '.' in instruction else instruction[:50]
TimerName(instruction) ==
    LET dots == { i \in 1..Len(instruction.toks) : instruction.toks[i] = "." }
        first == IF dots = {} THEN 0 ELSE CHOOSE i \in dots : \A j \in dots : i <= j
    IN IF first > 0 THEN Txt(SubSeq(instruction.toks, 1, first - 1))
       ELSE truncate_text(instruction, 50)

\* variant: a timer for every step whose estimated_time is not None
RECURSIVE derive_timers_from_all_timed_steps(_)
derive_timers_from_all_timed_steps(steps) ==
    IF steps = <<>> THEN <<>>
    ELSE LET step == Head(steps)
         IN (IF step.estimated_time # None
             THEN << Timer(truncate_text(TimerName(step.instruction), 200),
                           step.estimated_time * 60, step.order) >>
             ELSE <<>>) \o derive_timers_from_all_timed_steps(Tail(steps))

RECURSIVE derive_timers_from_steps(_)
derive_timers_from_steps(steps) ==
    IF steps = <<>> THEN <<>>
    ELSE LET step == Head(steps)
             name == truncate_text(TimerName(step.instruction), 200)
         IN (IF step.estimated_time # None /\ step.estimated_time > 0
             THEN << Timer(IF name.chars > 0 THEN name ELSE Txt(<<"Step", ToString(step.order)>>),
                           step.estimated_time * 60, step.order) >>
             ELSE <<>>) \o derive_timers_from_steps(Tail(steps))

\* ------------------------------------------------------------------------
\* Fetched pages. A page is what the two extractors can see in the HTML:
\* the Recipe item that extruct finds (has_json_ld and the json_* fields), and
\* for BeautifulSoup the h1, the image and the <li> texts of the lists whose
\* enclosing block mentions "ingredient" / "instruction", "step", ...
\* ------------------------------------------------------------------------
Opt(present, text) == [present |-> present, text |-> text]
Missing == Opt(FALSE, EmptyText)

Page(has_json_ld, name, prepTime, cookTime, totalTime, recipeYield, image, recipeIngredient, recipeInstructions, h1, li_ingredients, li_steps) ==
    [has_json_ld |-> has_json_ld, name |-> name, prepTime |-> prepTime,
     cookTime |-> cookTime, totalTime |-> totalTime, recipeYield |-> recipeYield,
     image |-> image, recipeIngredient |-> recipeIngredient,
     recipeInstructions |-> recipeInstructions, h1 |-> h1,
     li_ingredients |-> li_ingredients, li_steps |-> li_steps]

ImageUrl == Txt(<<"https://img.example.com/p.jpg">>)

\* a Recipe block: PT10M / PT20M, two ingredients, two instructions
PagePancakes ==
    Page(TRUE, Opt(TRUE, Txt(<<"Pancakes">>)), Iso(None, None, 10), Iso(None, None, 20),
         Absent, Spoken(<<"4", "-", "6">>), ImageUrl,
         << Txt(<<"2", "cups", "flour">>), Txt(<<"1", "tsp", "salt">>) >>,
         << Txt(<<"Mix", "well">>), Txt(<<"Bake", "for", "20", "minutes">>) >>,
         Missing, <<>>, <<>>)

\* a Recipe block without recipeIngredient, only a totalTime
PageGlaze ==
    Page(TRUE, Opt(TRUE, Txt(<<"Glaze">>)), Absent, Absent, Iso(None, 1, None),
         Absent, EmptyText, <<>>,
         << Txt(<<"Simmer", "8", "to", "10", "minutes">>) >>,
         Missing, <<>>, <<>>)

\* no Recipe block; lists of ingredients and steps under an <h1>
PageSoup ==
    Page(FALSE, Missing, Absent, Absent, Absent, Absent, ImageUrl, <<>>, <<>>,
         Opt(TRUE, Txt(<<"Soup">>)),
         << Txt(<<"1", "(10 pound)", "ham">>), Txt(<<"x">>) >>,
         << Txt(<<"Boil", "30", "seconds">>), Txt(<<"Stir">>) >>)

\* no Recipe block, no heading, no lists
PageBare ==
    Page(FALSE, Missing, Absent, Absent, Absent, Absent, EmptyText, <<>>, <<>>,
         Missing, <<>>, <<>>)

Pages == { PagePancakes, PageGlaze, PageSoup, PageBare }

\* what a GET of the URL may bring: uPancakes is a static page, the other
\* URLs may serve any page
PagesAt(u) == IF u = uPancakes THEN { PagePancakes } ELSE Pages

\* ------------------------------------------------------------------------
\* recipe_parser.py: parse_servings, extract_heuristic and the draft
\* (structured_data) that parse_recipe builds
\* ------------------------------------------------------------------------
parse_servings(v) ==
    IF v.fmt = "number" /\ v.n # 0 THEN v.n
    ELSE IF v.fmt = "text"
    THEN LET hits == { i \in 1..Len(v.text.toks) : IsDigits(v.text.toks[i]) }
         IN IF hits = {} THEN None
            ELSE Tenths(v.text.toks[CHOOSE i \in hits : \A j \in hits : i <= j]) \div 10
    ELSE None

Take(seq, n) == SubSeq(seq, 1, IF Len(seq) < n THEN Len(seq) ELSE n)

RECURSIVE SelectLonger(_, _)
\* the <li> texts with len(text) > min_len
SelectLonger(items, min_len) ==
    IF items = <<>> THEN <<>>
    ELSE (IF Head(items).chars > min_len THEN <<Head(items)>> ELSE <<>>)
         \o SelectLonger(Tail(items), min_len)

MinutesOf(t) ==
    IF parse_duration_to_seconds(t) # None /\ parse_duration_to_seconds(t) # 0
    THEN parse_duration_to_seconds(t) \div 60
    ELSE None

extract_heuristic(page) ==
    LET lines == SelectLonger(page.li_ingredients, 2)
        ingredients ==
            [i \in 1..Len(lines) |->
                Ingredient(truncate_text(parse_ingredient_string(lines[i]).name, 100),
                           truncate_text(parse_ingredient_string(lines[i]).quantity, 100))]
        texts == SelectLonger(page.li_steps, 5)
        steps ==
            [i \in 1..Len(texts) |->
                Step(i, truncate_text(texts[i], 500),
                     MinutesOf(truncate_text(texts[i], 500)))]
    IN [name |-> truncate_text(IF page.h1.present THEN page.h1.text
                               ELSE Txt(<<"Imported", "Recipe">>), 200),
        image_url |-> truncate_text(page.image, 500),
        ingredients |-> Take(IF ingredients = <<>>
                             THEN << Ingredient(Txt(<<"See", "source", "recipe">>), EmptyText) >>
                             ELSE ingredients, MAX_INGREDIENTS),
        steps |-> Take(IF steps = <<>>
                       THEN << Step(1, Txt(<<"See", "source", "recipe", "for", "instructions">>), None) >>
                       ELSE steps, MAX_STEPS)]

\* f"{ing['quantity']} {ing['name']}".strip()
JoinStripped(a, b) ==
    IF a.chars = 0 THEN b ELSE IF b.chars = 0 THEN a
    ELSE [toks |-> a.toks \o b.toks, chars |-> a.chars + 1 + b.chars]

Truthy(n) == n # None /\ n # 0

Draft(name, prep_time, cook_time, servings, image_url, recipeIngredient, recipeInstructions) ==
    [name |-> name, prep_time |-> prep_time, cook_time |-> cook_time,
     servings |-> servings, image_url |-> image_url,
     recipeIngredient |-> recipeIngredient, recipeInstructions |-> recipeInstructions]

\* parse_recipe, the json_ld branch
structured_from_json_ld(page) ==
    LET prep0 == parse_duration_flexible(page.prepTime)
        cook0 == parse_duration_flexible(page.cookTime)
        total == parse_duration_flexible(page.totalTime)
        useTotal == Truthy(total) /\ ~(Truthy(prep0) /\ Truthy(cook0))
        cook == IF useTotal /\ ~Truthy(cook0) THEN total ELSE cook0
        prep == IF useTotal /\ ~Truthy(prep0) THEN 0 ELSE prep0
        servings == IF Truthy(parse_servings(page.recipeYield))
                    THEN parse_servings(page.recipeYield) ELSE 4
    IN Draft(truncate_text(IF page.name.present THEN page.name.text ELSE Txt(<<"Recipe">>), 200),
             IF prep # None THEN prep ELSE 0,
             IF cook # None THEN cook ELSE 0,
             servings,
             truncate_text(page.image, 500),
             [i \in 1..Len(Take(page.recipeIngredient, MAX_INGREDIENTS)) |->
                 truncate_text(page.recipeIngredient[i], 100)],
             [i \in 1..Len(Take(page.recipeInstructions, MAX_STEPS)) |->
                 truncate_text(page.recipeInstructions[i], 500)])

\* parse_recipe, the heuristic branch
structured_from_heuristic(page) ==
    LET h == extract_heuristic(page)
    IN Draft(h.name, 0, 0, 4, h.image_url,
             [i \in 1..Len(h.ingredients) |->
                 JoinStripped(h.ingredients[i].quantity, h.ingredients[i].name)],
             [i \in 1..Len(h.steps) |-> h.steps[i].instruction])

pre_llm_method(page) == IF page.has_json_ld THEN "json-ld" ELSE "heuristic"

structured_data_of(page) ==
    IF page.has_json_ld THEN structured_from_json_ld(page)
    ELSE structured_from_heuristic(page)

\* ------------------------------------------------------------------------
\* recipe_parser.py: fallback_regex_parse, map_llm_to_imported_recipe
\* schemas/recipe_import.py: ImportedRecipe
\* ------------------------------------------------------------------------
Raw(name, prep_time, cook_time, servings, image_url, source_url, ingredients, steps, timers) ==
    [name |-> name, prep_time |-> prep_time, cook_time |-> cook_time,
     servings |-> servings, image_url |-> image_url, source_url |-> source_url,
     ingredients |-> ingredients, steps |-> steps, timers |-> timers]

PlaceholderStep ==
    Step(1, Txt(<<"Follow", "recipe", "instructions", "from", "source">>), None)

fallback_regex_parse(structured_data, source_url) ==
    LET lines == Take(structured_data.recipeIngredient, MAX_INGREDIENTS)
        ingredients ==
            [i \in 1..Len(lines) |->
                Ingredient(truncate_text(parse_ingredient_string(lines[i]).name, 100),
                           truncate_text(parse_ingredient_string(lines[i]).quantity, 100))]
        texts == Take(structured_data.recipeInstructions, MAX_STEPS)
        parsed == [i \in 1..Len(texts) |->
                      Step(i, truncate_text(texts[i], 500), MinutesOf(texts[i]))]
        steps == IF parsed = <<>> THEN << PlaceholderStep >> ELSE parsed
    IN Raw(structured_data.name, structured_data.prep_time, structured_data.cook_time,
           structured_data.servings, structured_data.image_url, source_url,
           ingredients, steps, derive_timers_from_steps(steps))

\* What a provider may answer as a JSON object: `complete` says whether the
\* keys that map_llm_to_imported_recipe subscripts are all there.
LlmTimer(description, duration_minutes) ==
    [description |-> description, duration_minutes |-> duration_minutes]

LlmData(complete, name, prep, cook, servings, image_url, ingredients, timers) ==
    [complete |-> complete, name |-> name, prep_time_minutes |-> prep,
     cook_time_minutes |-> cook, servings |-> servings, image_url |-> image_url,
     ingredients |-> ingredients, timers |-> timers]

LlmGood ==
    LlmData(TRUE, Txt(<<"Pancakes">>), 10, 20, 4, ImageUrl,
            << Ingredient(Txt(<<"flour">>), Txt(<<"2", "cups">>)),
               Ingredient(Txt(<<"salt">>), EmptyText) >>,
            << LlmTimer(Txt(<<"Bake">>), 20) >>)

\* an object that lacks "name"
LlmPartial ==
    LlmData(FALSE, EmptyText, 0, 0, 4, EmptyText,
            << Ingredient(Txt(<<"sugar">>), EmptyText) >>, <<>>)

NoLlmData == LlmData(FALSE, EmptyText, 0, 0, 0, EmptyText, <<>>, <<>>)

LlmAnswers == { LlmGood, LlmPartial }

\* ------------------------------------------------------------------------
\* Large and out-of-range inputs: pages and provider answers around the
\* limits of the ImportedRecipe schema
\* ------------------------------------------------------------------------
Repeat(x, n) == [i \in 1..n |-> x]

IngredientCounts == { 1, 50, 51 }
StepCounts == { 1, 20, 21, 30, 31 }
TimerCounts == { 0, 20, 21 }
\* PT10M, P1D, P2D
PrepTimes == { Iso(None, None, 10), Iso(1, None, None), Iso(2, None, None) }
PrepMinutes == { 10, 1440, 1441 }
ServingsValues == { 0, 1, 100, 101 }
TimerMinutes == { 20, 480, 481 }

\* a Recipe block with n_ingredients lines and n_steps timed instructions
WidePage(n_ingredients, n_steps, prepTime) ==
    Page(TRUE, Opt(TRUE, Txt(<<"Pancakes">>)), prepTime, Iso(None, None, 20),
         Absent, Absent, ImageUrl,
         Repeat(Txt(<<"2", "cups", "flour">>), n_ingredients),
         Repeat(Txt(<<"Bake", "for", "20", "minutes">>), n_steps),
         Missing, <<>>, <<>>)

WidePages ==
    { WidePage(i, s, p) : i \in IngredientCounts, s \in StepCounts, p \in PrepTimes }

\* a complete JSON object from a provider
WideLlm(n_ingredients, n_timers, prep, servings, minutes) ==
    LlmData(TRUE, Txt(<<"Pancakes">>), prep, 20, servings, ImageUrl,
            Repeat(Ingredient(Txt(<<"flour">>), Txt(<<"2", "cups">>)), n_ingredients),
            Repeat(LlmTimer(Txt(<<"Bake">>), minutes), n_timers))

WideLlmAnswers ==
    { WideLlm(i, t, p, s, m) : i \in IngredientCounts, t \in TimerCounts,
                               p \in PrepMinutes, s \in ServingsValues, m \in TimerMinutes }

\* variant: the placeholder step is given the cook time and the timers point at it
map_llm_to_imported_recipe_timed_placeholder(llm_data, source_url) ==
    Raw(llm_data.name, llm_data.prep_time_minutes, llm_data.cook_time_minutes,
        llm_data.servings, llm_data.image_url, source_url,
        llm_data.ingredients,
        << Step(1, PlaceholderStep.instruction, llm_data.cook_time_minutes) >>,
        [i \in 1..Len(llm_data.timers) |->
            Timer(llm_data.timers[i].description,
                  llm_data.timers[i].duration_minutes * 60, 1)])

\* variant: the timers are derived from the steps of the mapped recipe
map_llm_to_imported_recipe_derived_timers(llm_data, source_url) ==
    Raw(llm_data.name, llm_data.prep_time_minutes, llm_data.cook_time_minutes,
        llm_data.servings, llm_data.image_url, source_url,
        llm_data.ingredients,
        << PlaceholderStep >>,
        derive_timers_from_steps(<< PlaceholderStep >>))

map_llm_to_imported_recipe(llm_data, source_url) ==
    Raw(llm_data.name, llm_data.prep_time_minutes, llm_data.cook_time_minutes,
        llm_data.servings, llm_data.image_url, source_url,
        llm_data.ingredients,
        << PlaceholderStep >>,
        [i \in 1..Len(llm_data.timers) |->
            Timer(llm_data.timers[i].description,
                  llm_data.timers[i].duration_minutes * 60, None)])

\* ImportedRecipe(**raw_data) does not raise ValidationError
ImportedRecipeValid(raw) ==
    /\ raw.name.chars >= 1 /\ raw.name.chars <= 200
    /\ raw.prep_time >= 0 /\ raw.prep_time <= 1440
    /\ raw.cook_time >= 0 /\ raw.cook_time <= 1440
    /\ raw.servings >= 1 /\ raw.servings <= 100
    /\ raw.image_url.chars <= 500
    /\ Len(raw.ingredients) >= 1 /\ Len(raw.ingredients) <= 50
    /\ \A i \in 1..Len(raw.ingredients) :
          /\ raw.ingredients[i].name.chars >= 1
          /\ raw.ingredients[i].name.chars <= 200
          /\ raw.ingredients[i].quantity.chars <= 100
    /\ Len(raw.steps) >= 1 /\ Len(raw.steps) <= 30
    /\ \A i \in 1..Len(raw.steps) :
          /\ raw.steps[i].order >= 1 /\ raw.steps[i].order <= 50
          /\ raw.steps[i].instruction.chars >= 1
          /\ raw.steps[i].instruction.chars <= 500
          /\ (raw.steps[i].estimated_time = None
              \/ (raw.steps[i].estimated_time >= 0 /\ raw.steps[i].estimated_time <= 28800))
    /\ Len(raw.timers) <= 20
    /\ \A i \in 1..Len(raw.timers) :
          /\ raw.timers[i].name.chars >= 1 /\ raw.timers[i].name.chars <= 200
          /\ raw.timers[i].duration >= 1 /\ raw.timers[i].duration <= 28800
          /\ (raw.timers[i].step_order = None
              \/ (raw.timers[i].step_order >= 1 /\ raw.timers[i].step_order <= 50))

\* what ImportedRecipe(**raw_data) holds when it does not raise: the
\* @validator methods run on a field once the field's own constraints
\* (min_items, max_items) have passed
ImportedRecipe(raw) ==
    [raw EXCEPT !.ingredients = Take(@, 50), !.steps = Take(@, 30), !.timers = Take(@, 20)]

NoRecipe == Raw(EmptyText, 0, 0, 0, EmptyText, uGarbage, <<>>, <<>>, <<>>)

\* ------------------------------------------------------------------------
\* The recipe_data column (JSONB): recipe.dict() on the way in,
\* ImportedRecipe(**cached_data) on the way out. An Optional[int] is a JSON
\* number or null; a legacy document has no "image_url" key.
\* ------------------------------------------------------------------------
JsonInt(n) == [null |-> n = None, number |-> IF n = None THEN 0 ELSE n]
PyInt(j) == IF j.null THEN None ELSE j.number

to_jsonb(recipe) ==
    [name |-> recipe.name, prep_time |-> recipe.prep_time,
     cook_time |-> recipe.cook_time, servings |-> recipe.servings,
     has_image_url |-> TRUE, image_url |-> recipe.image_url,
     source_url |-> recipe.source_url, ingredients |-> recipe.ingredients,
     steps |-> [i \in 1..Len(recipe.steps) |->
                  [order |-> recipe.steps[i].order,
                   instruction |-> recipe.steps[i].instruction,
                   estimated_time |-> JsonInt(recipe.steps[i].estimated_time)]],
     timers |-> [i \in 1..Len(recipe.timers) |->
                   [name |-> recipe.timers[i].name,
                    duration |-> recipe.timers[i].duration,
                    step_order |-> JsonInt(recipe.timers[i].step_order)]]]

from_jsonb_fabricated_image(cached_data) ==
    Raw(cached_data.name, cached_data.prep_time, cached_data.cook_time,
        cached_data.servings,
        IF cached_data.has_image_url /\ cached_data.image_url.chars > 0
        THEN cached_data.image_url ELSE ImageUrl,
        cached_data.source_url, cached_data.ingredients,
        [i \in 1..Len(cached_data.steps) |->
            Step(cached_data.steps[i].order, cached_data.steps[i].instruction,
                 PyInt(cached_data.steps[i].estimated_time))],
        [i \in 1..Len(cached_data.timers) |->
            Timer(cached_data.timers[i].name, cached_data.timers[i].duration,
                  PyInt(cached_data.timers[i].step_order))])

from_jsonb(cached_data) ==
    Raw(cached_data.name, cached_data.prep_time, cached_data.cook_time,
        cached_data.servings,
        IF cached_data.has_image_url THEN cached_data.image_url ELSE EmptyText,
        cached_data.source_url, cached_data.ingredients,
        [i \in 1..Len(cached_data.steps) |->
            Step(cached_data.steps[i].order, cached_data.steps[i].instruction,
                 PyInt(cached_data.steps[i].estimated_time))],
        [i \in 1..Len(cached_data.timers) |->
            Timer(cached_data.timers[i].name, cached_data.timers[i].duration,
                  PyInt(cached_data.timers[i].step_order))])

\* ------------------------------------------------------------------------
\* State
\* ------------------------------------------------------------------------
Importers == { "w1", "w2" }        \* request handlers (gunicorn workers)
StartUrls == Urls \ { uWww }       \* what a user submits; uWww is a redirect target

VARIABLES
    now,                \* wall clock, minutes
    aware_timestamps,   \* the driver returns timestamptz values as offset-aware datetimes
    circuit,            \* the row id = 1 of recipe_import_circuit_state
    cache,              \* the rows of recipe_import_cache
    pc,                 \* where each importer stands in parse_recipe
    url,                \* parse_recipe(url, ...)
    current_url,        \* fetch_html: current_url
    redirect_count,     \* fetch_html: redirect_count
    requests,           \* requests.get calls issued by this fetch_html call
    validation,         \* the last validate_url_safe call of this fetch_html call
    page,               \* html returned by fetch_html
    content,            \* fetch_html: the body on the wire and the bytes read of it
    connected,          \* the address the last requests.get of this call connected to
    extraction_method,  \* parse_recipe: extraction_method
    claude,             \* how call_claude ended
    gpt,                \* how call_gpt ended
    llm_result,         \* normalize_recipe_with_llm: result
    api_calls,          \* provider API requests issued by this normalize call
    breaker_calls,      \* circuit-breaker functions called by this normalize call
    breaker_op,         \* the last circuit-breaker call: which one, how it ended
    outcome,            \* what parse_recipe returned or raised
    parsed,             \* the last direct call of a parsing function: argument, result
    timer,              \* the row of active_timers of the cooking session
    tasks,              \* complete_timer tasks waiting in the Celery queue
    utcnow              \* datetime.utcnow(), seconds

vars == << now, aware_timestamps, circuit, cache, pc, url, current_url,
           redirect_count, requests, validation, page, content, connected,
           extraction_method, claude, gpt, llm_result, api_calls, breaker_calls, breaker_op, outcome, parsed,
           timer, tasks, utcnow >>

fetch_vars == << current_url, redirect_count, requests, validation, page, content, connected >>
llm_vars == << claude, gpt, llm_result, api_calls, breaker_calls, breaker_op >>
store_vars == << circuit, cache >>
timer_vars == << timer, tasks, utcnow >>
env_vars == << now, aware_timestamps, parsed, timer_vars >>

Circuit(consecutive_failures, last_failure_at, is_open) ==
    [consecutive_failures |-> consecutive_failures,
     last_failure_at |-> last_failure_at, is_open |-> is_open]

\* body: the bytes the server sends; read: len(content); returned: the length
\* of what fetch_html returned
Content(body, read, returned) == [body |-> body, read |-> read, returned |-> returned]
NoContent == Content(0, 0, None)

\* function(argument) returned result
Call(function, argument, result) ==
    [function |-> function, argument |-> argument, result |-> result]
NoCall == Call("none", None, None)

\* ActiveTimer columns; asked is the duration the start request gave and ran
\* the seconds the timer has spent counting down since
ActiveTimer(exists, duration, started_at, paused_at, remaining_time, completed_at, is_active, asked, ran) ==
    [exists |-> exists, duration |-> duration, started_at |-> started_at,
     paused_at |-> paused_at, remaining_time |-> remaining_time,
     completed_at |-> completed_at, is_active |-> is_active, asked |-> asked, ran |-> ran]
NoTimer == ActiveTimer(FALSE, 0, None, None, None, None, FALSE, 0, 0)

\* complete_timer.apply_async(args=[timer_id, family_id], countdown=duration)
Task(scheduled_at, countdown) == [scheduled_at |-> scheduled_at, eta |-> scheduled_at + countdown]

Validation(called, u, answer, verdict) ==
    [called |-> called, url |-> u, answer |-> answer,
     safe |-> verdict.safe, reason |-> verdict.reason]
NoValidation == Validation(FALSE, uGarbage, GaiError, Verdict(FALSE, ""))

LlmResult(kind, data) == [kind |-> kind, data |-> data]
NoResult == LlmResult("None", NoLlmData)

BreakerOp(op, path, ret) == [op |-> op, path |-> path, ret |-> ret]
NoBreakerOp == BreakerOp("none", "none", "None")

NoBreakerCalls == [can_attempt_llm |-> 0, record_llm_failure |-> 0, record_llm_success |-> 0]
NoApiCalls == [claude |-> 0, gpt |-> 0]

Outcome(status, reason, method, recipe) ==
    [status |-> status, reason |-> reason, method |-> method, recipe |-> recipe]
Pending == Outcome("pending", "", "", NoRecipe)
Raised(exception, reason) == Outcome(exception, reason, "", NoRecipe)
Returned(method, recipe) == Outcome("returned", "", method, recipe)

get_url_hash(u) == << "sha256", u >>

CacheRow(url_hash, recipe_data, cached_at) ==
    [url_hash |-> url_hash, recipe_data |-> recipe_data, cached_at |-> cached_at]

Init ==
    /\ now = 0
    \* TRUE: last_failure_at arrives as an offset-aware datetime, as the driver
    \* reads the TIMESTAMP(timezone=True) column of the migration;
    \* FALSE: the connection hands back naive datetimes
    /\ aware_timestamps \in BOOLEAN
    /\ circuit = Circuit(0, None, FALSE)       \* the row the migration inserts
    /\ cache = {}
    /\ pc = [w \in Importers |-> "idle"]
    /\ url = [w \in Importers |-> uGarbage]
    /\ current_url = [w \in Importers |-> uGarbage]
    /\ redirect_count = [w \in Importers |-> 0]
    /\ requests = [w \in Importers |-> 0]
    /\ validation = [w \in Importers |-> NoValidation]
    /\ content = [w \in Importers |-> NoContent]
    /\ connected = [w \in Importers |-> NoAddress]
    /\ page = [w \in Importers |-> PageBare]
    /\ extraction_method = [w \in Importers |-> ""]
    /\ claude = [w \in Importers |-> "not called"]
    /\ gpt = [w \in Importers |-> "not called"]
    /\ llm_result = [w \in Importers |-> NoResult]
    /\ api_calls = [w \in Importers |-> NoApiCalls]
    /\ breaker_calls = [w \in Importers |-> NoBreakerCalls]
    /\ breaker_op = [w \in Importers |-> NoBreakerOp]
    /\ outcome = [w \in Importers |-> Pending]
    /\ parsed = NoCall
    /\ timer = NoTimer
    /\ tasks = {}
    /\ utcnow = 0

\* ------------------------------------------------------------------------
\* parse_recipe: entry, cache lookup
\* ------------------------------------------------------------------------
Raise(w, exception, reason) ==
    /\ pc' = [pc EXCEPT ![w] = "done"]
    /\ outcome' = [outcome EXCEPT ![w] = Raised(exception, reason)]

Return(w, method, recipe) ==
    /\ pc' = [pc EXCEPT ![w] = "done"]
    /\ outcome' = [outcome EXCEPT ![w] = Returned(method, recipe)]

\* the route calls parse_recipe(url, family_id, user_id)
StartImport(w) ==
    /\ pc[w] = "idle"
    /\ \E u \in StartUrls : url' = [url EXCEPT ![w] = u]
    /\ pc' = [pc EXCEPT ![w] = "cache_check"]
    /\ UNCHANGED << env_vars, store_vars, fetch_vars, llm_vars, extraction_method, outcome >>

FreshRows_any_age(rows, hash, t) ==
    { row \in rows : row.url_hash = hash }

\* SELECT recipe_data ... WHERE url_hash = :hash AND cached_at > now() - interval '24 hours'
FreshRows(rows, hash, t) ==
    { row \in rows : row.url_hash = hash /\ row.cached_at > t - TTL_MINUTES }

\* how the try block of the cache lookup ends: a usable row, or nothing
\* (no fresh row, or an exception: the store failed or the stored document
\* does not validate)
cache_lookup_raising(db_ok, hits) ==
    IF ~db_ok THEN "raise" ELSE IF hits # {} THEN "hit" ELSE "miss"

cache_lookup(db_ok, hits) ==
    IF db_ok /\ hits # {} /\ \A row \in hits : ImportedRecipeValid(from_jsonb(row.recipe_data))
    THEN "hit" ELSE "miss"

CacheCheck(w) ==
    /\ pc[w] = "cache_check"
    /\ \E db_ok \in BOOLEAN :
          LET hits == FreshRows(cache, get_url_hash(url[w]), now)
              found == cache_lookup(db_ok, hits)
          IN IF found = "hit"
             THEN Return(w, "cached", from_jsonb((CHOOSE row \in hits : TRUE).recipe_data))
             ELSE IF found = "miss"
             THEN /\ pc' = [pc EXCEPT ![w] = "fetch"]
                  /\ UNCHANGED outcome
             ELSE Raise(w, "SQLAlchemyError", "cache")
    /\ UNCHANGED << env_vars, store_vars, url, fetch_vars, llm_vars, extraction_method >>

\* ------------------------------------------------------------------------
\* http_fetcher.py: fetch_html
\* ------------------------------------------------------------------------
Location(kind, target, path) == [kind |-> kind, url |-> target, path |-> path]
Locations ==
    { Location("none", uGarbage, "") }
    \cup { Location("absolute", u, "") : u \in { uRecipe, uWww, uEvil, uMeta, uFtp, uRebind } }
    \cup { Location("relative", uGarbage, "/moved") }

urljoin(base, location) ==
    IF location.kind = "absolute" THEN location.url
    ELSE [base EXCEPT !.path = location.path]

\* the validate_url_safe call on a redirect target, as the new "last call"
revalidate_skipped(previous, next_url, answer) == previous

revalidate(previous, next_url, answer) ==
    Validation(TRUE, next_url, answer, validate_url_safe(next_url, answer))

\* is_safe, reason = validate_url_safe(url); current_url = url; redirect_count = 0
FetchStart(w) ==
    /\ pc[w] = "fetch"
    /\ \E answer \in DnsAnswers(url[w].host) :
          LET v == Validation(TRUE, url[w], answer, validate_url_safe(url[w], answer))
          IN /\ validation' = [validation EXCEPT ![w] = v]
             /\ IF ~v.safe
                THEN /\ Raise(w, "ValueError", "Unsafe URL")
                     /\ UNCHANGED current_url
                ELSE /\ current_url' = [current_url EXCEPT ![w] = url[w]]
                     /\ pc' = [pc EXCEPT ![w] = "request"]
                     /\ UNCHANGED outcome
    /\ UNCHANGED << env_vars, store_vars, url, redirect_count, requests, page, content,
                    connected, llm_vars, extraction_method >>

\* requests.get(current_url) is handed the URL, not an address: urllib3 resolves
\* the host name again and connects to one of the addresses of that answer
ConnectAddresses(host) ==
    UNION { { answer.addrs[i] : i \in 1..Len(answer.addrs) } :
               answer \in { a \in DnsAnswers(host) : a.ok } }

\* while redirect_count <= MAX_REDIRECTS: requests.get(current_url, allow_redirects=False, ...)
\* past the loop: raise ValueError("Failed to fetch content after redirects")
SendRequest(w) ==
    /\ pc[w] = "request"
    /\ IF redirect_count[w] <= MAX_REDIRECTS
       THEN /\ requests' = [requests EXCEPT ![w] = @ + 1]
            /\ \E address \in ConnectAddresses(current_url[w].host) :
                  connected' = [connected EXCEPT ![w] = address]
            /\ pc' = [pc EXCEPT ![w] = "response"]
            /\ UNCHANGED outcome
       ELSE /\ Raise(w, "ValueError", "Failed to fetch content after redirects")
            /\ UNCHANGED << requests, connected >>
    /\ UNCHANGED << env_vars, store_vars, url, current_url, redirect_count, validation, content,
                    page, llm_vars, extraction_method >>

TransportErrorRetried(w) ==
    /\ pc[w] = "response"
    /\ pc' = [pc EXCEPT ![w] = "request"]
    /\ UNCHANGED << env_vars, store_vars, url, fetch_vars, llm_vars, extraction_method,
                    outcome >>

\* requests.exceptions.Timeout / ConnectionError / RequestException
TransportError(w) ==
    /\ pc[w] = "response"
    /\ \E reason \in { "Request timeout", "Could not connect", "HTTP request failed" } :
          Raise(w, "ValueError", reason)
    /\ UNCHANGED << env_vars, store_vars, url, fetch_vars, llm_vars, extraction_method >>

\* redirect_count += 1; if redirect_count > MAX_REDIRECTS: raise
never_too_many_redirects(count) == FALSE
too_many_redirects(count) == count > MAX_REDIRECTS

\* response.status_code in (301, 302, 303, 307, 308)
Redirect(w) ==
    /\ pc[w] = "response"
    /\ redirect_count' = [redirect_count EXCEPT ![w] = @ + 1]
    /\ connected' = [connected EXCEPT ![w] = NoAddress]
    /\ \E location \in Locations :
          IF too_many_redirects(redirect_count[w] + 1)
          THEN /\ Raise(w, "ValueError", "Too many redirects")
               /\ UNCHANGED << current_url, validation >>
          ELSE IF location.kind = "none"
          THEN /\ Raise(w, "ValueError", "Redirect without Location header")
               /\ UNCHANGED << current_url, validation >>
          ELSE LET next_url == urljoin(current_url[w], location)
               IN \E answer \in DnsAnswers(next_url.host) :
                    LET v == revalidate(validation[w], next_url, answer)
                    IN /\ validation' = [validation EXCEPT ![w] = v]
                       /\ IF ~v.safe
                          THEN /\ Raise(w, "ValueError", "Redirect to unsafe URL")
                               /\ UNCHANGED current_url
                          ELSE /\ current_url' = [current_url EXCEPT ![w] = next_url]
                               /\ pc' = [pc EXCEPT ![w] = "request"]
                               /\ UNCHANGED outcome
    /\ UNCHANGED << env_vars, store_vars, url, requests, page, content, llm_vars, extraction_method >>

\* a non-redirect response that is refused: status, content type, size, broken body
BadResponse(w) ==
    /\ pc[w] = "response"
    /\ \E reason \in { "HTTP error status", "Not HTML content", "Response too large",
                      "Connection interrupted while reading response" } :
          Raise(w, "ValueError", reason)
    /\ UNCHANGED << env_vars, store_vars, url, fetch_vars, llm_vars, extraction_method >>

\* return content.decode('utf-8', errors='ignore'); the frame of fetch_html is gone
HtmlResponse(w) ==
    /\ pc[w] = "response"
    /\ \E p \in PagesAt(current_url[w]) : page' = [page EXCEPT ![w] = p]
    /\ current_url' = [current_url EXCEPT ![w] = uGarbage]
    /\ redirect_count' = [redirect_count EXCEPT ![w] = 0]
    /\ requests' = [requests EXCEPT ![w] = 0]
    /\ validation' = [validation EXCEPT ![w] = NoValidation]
    /\ content' = [content EXCEPT ![w] = NoContent]
    /\ connected' = [connected EXCEPT ![w] = NoAddress]
    /\ pc' = [pc EXCEPT ![w] = "extract"]
    /\ UNCHANGED << env_vars, store_vars, url, llm_vars, extraction_method, outcome >>

\* ------------------------------------------------------------------------
\* fetch_html: reading the body of a 2xx HTML response, chunk by chunk
\* ------------------------------------------------------------------------
BodySizes ==
    { 0, 1, CHUNK_SIZE, MAX_SIZE - 1, MAX_SIZE, MAX_SIZE + 1, MAX_SIZE + CHUNK_SIZE,
      2 * MAX_SIZE }

too_large_never(length) == FALSE

\* if len(content) > MAX_SIZE
too_large(length) == length > MAX_SIZE

\* the status and the Content-Type were accepted; content = b''
StartReading(w) ==
    /\ pc[w] = "response"
    /\ \E size \in BodySizes : content' = [content EXCEPT ![w] = Content(size, 0, None)]
    /\ pc' = [pc EXCEPT ![w] = "read"]
    /\ UNCHANGED << env_vars, store_vars, url, current_url, redirect_count, requests,
                    validation, page, connected, llm_vars, extraction_method, outcome >>

\* one turn of `for chunk in response.iter_content(chunk_size=8192)`
ReadChunk(w) ==
    /\ pc[w] = "read"
    /\ content[w].read < content[w].body
    /\ LET rest == content[w].body - content[w].read
           chunk == IF rest < CHUNK_SIZE THEN rest ELSE CHUNK_SIZE
       IN /\ content' = [content EXCEPT ![w].read = @ + chunk]
          /\ IF too_large(content[w].read + chunk)
             THEN Raise(w, "ValueError", "Response too large")
             ELSE UNCHANGED << pc, outcome >>
    /\ UNCHANGED << env_vars, store_vars, url, current_url, redirect_count, requests,
                    validation, page, connected, llm_vars, extraction_method >>

\* the iterator is exhausted: return content.decode('utf-8', errors='ignore')
ReturnContent(w) ==
    /\ pc[w] = "read"
    /\ content[w].read = content[w].body
    /\ \E p \in PagesAt(current_url[w]) : page' = [page EXCEPT ![w] = p]
    /\ content' = [content EXCEPT ![w].returned = content[w].read]
    /\ connected' = [connected EXCEPT ![w] = NoAddress]
    /\ current_url' = [current_url EXCEPT ![w] = uGarbage]
    /\ redirect_count' = [redirect_count EXCEPT ![w] = 0]
    /\ requests' = [requests EXCEPT ![w] = 0]
    /\ validation' = [validation EXCEPT ![w] = NoValidation]
    /\ pc' = [pc EXCEPT ![w] = "extract"]
    /\ UNCHANGED << env_vars, store_vars, url, llm_vars, extraction_method, outcome >>

\* json_ld = extract_json_ld(html); extraction_method = "heuristic" / "json-ld";
\* structured_data = {...}
Extract(w) ==
    /\ pc[w] = "extract"
    /\ extraction_method' = [extraction_method EXCEPT ![w] = pre_llm_method(page[w])]
    /\ pc' = [pc EXCEPT ![w] = "can_attempt"]
    /\ UNCHANGED << env_vars, store_vars, url, fetch_vars, llm_vars, outcome >>

\* ------------------------------------------------------------------------
\* circuit_breaker.py
\* ------------------------------------------------------------------------
\* UPDATE ... SET consecutive_failures = 0, is_open = false WHERE id = 1
\* variant: the reset also forgets the time of the last failure
closed_row_forgetting_failure(row) == Circuit(0, None, FALSE)

\* UPDATE ... SET consecutive_failures = 0, is_open = false
closed_row(row) == [row EXCEPT !.consecutive_failures = 0, !.is_open = FALSE]

\* variant: the application writes a count computed from the row it read
\* when the circuit was last closed: SET consecutive_failures = 1
failure_row_from_stale_read(row, t) == Circuit(1, t, 1 >= FAILURE_THRESHOLD)

\* variant: the circuit opens one failure later
failure_row_above_threshold(row, t) ==
    Circuit(row.consecutive_failures + 1, t,
            row.consecutive_failures + 1 > FAILURE_THRESHOLD)

\* UPDATE ... SET consecutive_failures = consecutive_failures + 1,
\*   last_failure_at = now(), is_open = (consecutive_failures + 1 >= :threshold)
failure_row(row, t) ==
    Circuit(row.consecutive_failures + 1, t,
            row.consecutive_failures + 1 >= FAILURE_THRESHOLD)

\* Which way can_attempt_llm leaves its try block for the row it read.
\* datetime.now() is naive: comparing it with an offset-aware last_failure
\* raises TypeError, which the except clause turns into "allow".
can_attempt_branch(db_ok, row, t, aware) ==
    IF ~db_ok THEN "store_error"
    ELSE IF ~row.is_open THEN "closed"
    ELSE IF row.last_failure_at = None THEN "blocked"
    ELSE IF aware THEN "type_error"
    ELSE IF t >= row.last_failure_at + COOLDOWN_MINUTES THEN "cooldown_expired"
    ELSE "blocked"

\* what the except clauses return
on_exception_fail_closed(function) ==
    IF function = "record_llm_success" THEN "None" ELSE "False"

on_exception(function) ==
    IF function = "can_attempt_llm" THEN "True"
    ELSE IF function = "record_llm_failure" THEN "False"
    ELSE "None"

Bool(b) == IF b THEN "True" ELSE "False"

Called(w, function) ==
    breaker_calls' = [breaker_calls EXCEPT ![w][function] = @ + 1]

\* what can_attempt_llm returns when it leaves by that branch
can_attempt_returns(branch) ==
    IF branch = "closed" THEN "True"
    ELSE IF branch = "blocked" THEN "False"
    ELSE on_exception("can_attempt_llm")

\* call_claude: if not can_attempt_llm(): return None
CanAttempt(w) ==
    /\ pc[w] = "can_attempt"
    /\ Called(w, "can_attempt_llm")
    /\ \E db_ok \in BOOLEAN :
          LET branch == can_attempt_branch(db_ok, circuit, now, aware_timestamps)
              ret == can_attempt_returns(branch)
          IN IF branch = "cooldown_expired"
             THEN /\ pc' = [pc EXCEPT ![w] = "reset_circuit"]
                  /\ UNCHANGED << breaker_op, claude >>
             ELSE /\ breaker_op' = [breaker_op EXCEPT ![w] =
                                       BreakerOp("can_attempt_llm", branch, ret)]
                  /\ pc' = [pc EXCEPT ![w] = IF ret = "True" THEN "claude" ELSE "gpt"]
                  /\ claude' = [claude EXCEPT ![w] =
                                   IF ret = "True" THEN @ ELSE "circuit open"]
    /\ UNCHANGED << env_vars, store_vars, url, fetch_vars, extraction_method,
                    gpt, llm_result, api_calls, outcome >>

\* can_attempt_llm, cooldown expired: UPDATE ... SET is_open = false,
\* consecutive_failures = 0; return True
ResetCircuit(w) ==
    /\ pc[w] = "reset_circuit"
    /\ \E db_ok \in BOOLEAN :
          IF db_ok
          THEN /\ circuit' = closed_row(circuit)
               /\ breaker_op' = [breaker_op EXCEPT ![w] =
                                    BreakerOp("can_attempt_llm", "reset", "True")]
               /\ pc' = [pc EXCEPT ![w] = "claude"]
               /\ UNCHANGED claude
          ELSE /\ UNCHANGED circuit
               /\ breaker_op' = [breaker_op EXCEPT ![w] =
                                    BreakerOp("can_attempt_llm", "store_error",
                                              on_exception("can_attempt_llm"))]
               /\ pc' = [pc EXCEPT ![w] =
                            IF breaker_op'[w].ret = "True" THEN "claude" ELSE "gpt"]
               /\ claude' = [claude EXCEPT ![w] =
                                IF breaker_op'[w].ret = "True" THEN @ ELSE "circuit open"]
    /\ UNCHANGED << env_vars, cache, url, fetch_vars, extraction_method,
                    gpt, llm_result, api_calls, breaker_calls, outcome >>

\* record_llm_failure() as called by importer w
RecordFailure(w) ==
    /\ Called(w, "record_llm_failure")
    /\ \E db_ok \in BOOLEAN :
          IF db_ok
          THEN /\ circuit.consecutive_failures < MaxFailures
               /\ circuit' = failure_row(circuit, now)
               /\ breaker_op' = [breaker_op EXCEPT ![w] =
                                    BreakerOp("record_llm_failure", "updated",
                                              Bool(circuit'.is_open))]
          ELSE /\ UNCHANGED circuit
               /\ breaker_op' = [breaker_op EXCEPT ![w] =
                                    BreakerOp("record_llm_failure", "store_error",
                                              on_exception("record_llm_failure"))]

\* record_llm_success() as called by importer w
RecordSuccess(w) ==
    /\ Called(w, "record_llm_success")
    /\ \E db_ok \in BOOLEAN :
          IF db_ok
          THEN /\ circuit' = closed_row(circuit)
               /\ breaker_op' = [breaker_op EXCEPT ![w] =
                                    BreakerOp("record_llm_success", "updated", "None")]
          ELSE /\ UNCHANGED circuit
               /\ breaker_op' = [breaker_op EXCEPT ![w] =
                                    BreakerOp("record_llm_success", "store_error",
                                              on_exception("record_llm_success"))]

\* ------------------------------------------------------------------------
\* llm_service.py: call_claude, call_gpt, normalize_recipe_with_llm
\* ------------------------------------------------------------------------
Answer(kind, data) == [kind |-> kind, data |-> data]

\* How one provider call may end: the key is not set; the API call raises
\* (a timeout and an API error both land in "except Exception"); the text holds
\* no JSON; the JSON is falsy ({} / null); the JSON is an object.
ProviderAnswers ==
    { Answer(k, NoLlmData) : k \in { "no api key", "api exception",
                                     "invalid json", "falsy json" } }
    \cup { Answer("json", d) : d \in LlmAnswers }

Succeeds(answer) == answer.kind \in { "falsy json", "json" }

ResultOf(answer) ==
    IF answer.kind = "json" THEN LlmResult("data", answer.data)
    ELSE IF answer.kind = "falsy json" THEN LlmResult("falsy", NoLlmData)
    ELSE NoResult

\* normalize_recipe_with_llm: where it goes once call_claude / call_gpt is back
after_claude(result) == IF result.kind = "data" THEN "build" ELSE "gpt"

after_gpt_retry(result) == IF result.kind = "data" THEN "build" ELSE "can_attempt"
after_gpt(result) == "build"

\* call_claude / call_gpt: the except clauses and the missing key call record_llm_failure
records_failure_unless_no_key(how) == how # "no api key"
records_failure(how) == TRUE

CallClaude(w) ==
    /\ pc[w] = "claude"
    /\ \E answer \in ProviderAnswers :
          /\ claude' = [claude EXCEPT ![w] = answer.kind]
          /\ api_calls' = [api_calls EXCEPT ![w].claude =
                              IF answer.kind = "no api key" THEN @ ELSE @ + 1]
          /\ llm_result' = [llm_result EXCEPT ![w] = ResultOf(answer)]
          /\ pc' = [pc EXCEPT ![w] =
                       IF Succeeds(answer) THEN "claude_succeeded" ELSE "claude_failed"]
    /\ UNCHANGED << env_vars, store_vars, url, fetch_vars, extraction_method,
                    gpt, breaker_calls, breaker_op, outcome >>

ClaudeFailed(w) ==
    /\ pc[w] = "claude_failed"
    /\ IF records_failure(claude[w])
       THEN RecordFailure(w)
       ELSE UNCHANGED << circuit, breaker_calls, breaker_op >>
    /\ pc' = [pc EXCEPT ![w] = after_claude(llm_result[w])]
    /\ UNCHANGED << env_vars, cache, url, fetch_vars, extraction_method,
                    claude, gpt, llm_result, api_calls, outcome >>

ClaudeSucceeded(w) ==
    /\ pc[w] = "claude_succeeded"
    /\ RecordSuccess(w)
    /\ pc' = [pc EXCEPT ![w] = after_claude(llm_result[w])]
    /\ UNCHANGED << env_vars, cache, url, fetch_vars, extraction_method,
                    claude, gpt, llm_result, api_calls, outcome >>

CallGpt(w) ==
    /\ pc[w] = "gpt"
    /\ \E answer \in ProviderAnswers :
          /\ gpt' = [gpt EXCEPT ![w] = answer.kind]
          /\ api_calls' = [api_calls EXCEPT ![w].gpt =
                              IF answer.kind = "no api key" THEN @ ELSE @ + 1]
          /\ llm_result' = [llm_result EXCEPT ![w] = ResultOf(answer)]
          /\ pc' = [pc EXCEPT ![w] =
                       IF Succeeds(answer) THEN "gpt_succeeded" ELSE "gpt_failed"]
    /\ UNCHANGED << env_vars, store_vars, url, fetch_vars, extraction_method,
                    claude, breaker_calls, breaker_op, outcome >>

\* normalize_recipe_with_llm returns result if it is truthy, else None
GptFailed(w) ==
    /\ pc[w] = "gpt_failed"
    /\ IF records_failure(gpt[w])
       THEN RecordFailure(w)
       ELSE UNCHANGED << circuit, breaker_calls, breaker_op >>
    /\ pc' = [pc EXCEPT ![w] = after_gpt(llm_result[w])]
    /\ UNCHANGED << env_vars, cache, url, fetch_vars, extraction_method,
                    claude, gpt, llm_result, api_calls, outcome >>

GptSucceeded(w) ==
    /\ pc[w] = "gpt_succeeded"
    /\ RecordSuccess(w)
    /\ pc' = [pc EXCEPT ![w] = after_gpt(llm_result[w])]
    /\ llm_result' = [llm_result EXCEPT ![w] = IF @.kind = "data" THEN @ ELSE NoResult]
    /\ UNCHANGED << env_vars, cache, url, fetch_vars, extraction_method,
                    claude, gpt, api_calls, outcome >>

\* ------------------------------------------------------------------------
\* parse_recipe: mapping, validation, cache write
\* ------------------------------------------------------------------------
\* extraction_method once normalize_recipe_with_llm is back
method_after_llm(before, llm_succeeded) == IF llm_succeeded THEN "ai" ELSE "heuristic"

raw_data_of(w) ==
    IF llm_result[w].kind = "data"
    THEN map_llm_to_imported_recipe(llm_result[w].data, url[w])
    ELSE fallback_regex_parse(structured_data_of(page[w]), url[w])

Build(w) ==
    /\ pc[w] = "build"
    /\ IF llm_result[w].kind = "data" /\ ~llm_result[w].data.complete
       THEN /\ Raise(w, "KeyError", "name")
            /\ UNCHANGED extraction_method
       ELSE /\ extraction_method' = [extraction_method EXCEPT ![w] =
                   method_after_llm(@, llm_result[w].kind = "data")]
            /\ IF ImportedRecipeValid(raw_data_of(w))
               THEN /\ outcome' = [outcome EXCEPT ![w] =
                           Outcome("validated", "", extraction_method'[w],
                                   ImportedRecipe(raw_data_of(w)))]
                    /\ pc' = [pc EXCEPT ![w] = "cache_write"]
               ELSE Raise(w, "ValidationError", "ImportedRecipe")
    /\ UNCHANGED << env_vars, store_vars, url, fetch_vars, llm_vars >>

\* variant: a plain INSERT into a table without the primary key
upsert_keeping_old(rows, hash, data, t) == rows \cup { CacheRow(hash, data, t) }

\* INSERT ... ON CONFLICT (url_hash) DO UPDATE SET recipe_data = :data, cached_at = now()
upsert(rows, hash, data, t) ==
    { row \in rows : row.url_hash # hash } \cup { CacheRow(hash, data, t) }

CacheWrite(w) ==
    /\ pc[w] = "cache_write"
    /\ \E db_ok \in BOOLEAN :
          cache' = IF db_ok
                   THEN upsert(cache, get_url_hash(url[w]), to_jsonb(outcome[w].recipe), now)
                   ELSE cache
    /\ Return(w, outcome[w].method, outcome[w].recipe)
    /\ UNCHANGED << env_vars, circuit, url, fetch_vars, llm_vars, extraction_method >>

\* the route has answered; the locals of the call are gone
Finish(w) ==
    /\ pc[w] = "done"
    /\ pc' = [pc EXCEPT ![w] = "idle"]
    /\ url' = [url EXCEPT ![w] = uGarbage]
    /\ current_url' = [current_url EXCEPT ![w] = uGarbage]
    /\ redirect_count' = [redirect_count EXCEPT ![w] = 0]
    /\ requests' = [requests EXCEPT ![w] = 0]
    /\ validation' = [validation EXCEPT ![w] = NoValidation]
    /\ content' = [content EXCEPT ![w] = NoContent]
    /\ connected' = [connected EXCEPT ![w] = NoAddress]
    /\ page' = [page EXCEPT ![w] = PageBare]
    /\ extraction_method' = [extraction_method EXCEPT ![w] = ""]
    /\ claude' = [claude EXCEPT ![w] = "not called"]
    /\ gpt' = [gpt EXCEPT ![w] = "not called"]
    /\ llm_result' = [llm_result EXCEPT ![w] = NoResult]
    /\ api_calls' = [api_calls EXCEPT ![w] = NoApiCalls]
    /\ breaker_calls' = [breaker_calls EXCEPT ![w] = NoBreakerCalls]
    /\ breaker_op' = [breaker_op EXCEPT ![w] = NoBreakerOp]
    /\ outcome' = [outcome EXCEPT ![w] = Pending]
    /\ UNCHANGED << env_vars, store_vars >>

\* time passes
Tick ==
    /\ now + TickMinutes <= MaxTime
    /\ now' = now + TickMinutes
    /\ UNCHANGED << aware_timestamps, parsed, timer_vars, store_vars, pc, url, fetch_vars, llm_vars,
                    extraction_method, outcome >>

\* one step of an import that finds the circuit closed or still cooling down
ImportStep(w) ==
    \/ StartImport(w)
    \/ CacheCheck(w)
    \/ FetchStart(w)
    \/ SendRequest(w)
    \/ TransportError(w)
    \/ Redirect(w)
    \/ BadResponse(w)
    \/ HtmlResponse(w)
    \/ Extract(w)
    \/ CanAttempt(w)
    \/ CallClaude(w)
    \/ ClaudeFailed(w)
    \/ ClaudeSucceeded(w)
    \/ CallGpt(w)
    \/ GptFailed(w)
    \/ GptSucceeded(w)
    \/ Build(w)
    \/ CacheWrite(w)
    \/ Finish(w)

Step1(w) == ImportStep(w) \/ ResetCircuit(w)

\* one importer at a time
Next == Step1("w1") \/ Tick

Spec == Init /\ [][Next]_vars

\* imports that follow one another within the same minute: the clock stands
\* still, so no cooldown runs out and can_attempt_llm never resets the circuit
NextCache == ImportStep("w1")

SpecCache == Init /\ [][NextCache]_vars

\* fetch_html alone: one importer up to the point where fetch_html returns or
\* raises. Every requests.get returns or times out (timeout=TIMEOUT), and the
\* code between two requests runs to its end: weak fairness of the fetch steps.
FetchStep(w) ==
    \/ FetchStart(w)
    \/ SendRequest(w)
    \/ TransportError(w)
    \/ Redirect(w)
    \/ BadResponse(w)
    \/ HtmlResponse(w)

NextFetch == StartImport("w1") \/ CacheCheck("w1") \/ FetchStep("w1") \/ Finish("w1")

SpecFetch == Init /\ [][NextFetch]_vars /\ WF_vars(FetchStep("w1"))

\* parse_recipe from the point where normalize_recipe_with_llm is back, for
\* the large and out-of-range inputs: either both providers were skipped (no
\* API keys) and the draft of a wide page goes to fallback_regex_parse, or
\* the primary provider answered with a wide JSON object
InitBuild ==
    /\ now = 0
    /\ aware_timestamps \in BOOLEAN
    /\ circuit = Circuit(0, None, FALSE)
    /\ cache = {}
    /\ pc = [w \in Importers |-> IF w = "w1" THEN "build" ELSE "idle"]
    /\ url = [w \in Importers |-> IF w = "w1" THEN uRecipe ELSE uGarbage]
    /\ current_url = [w \in Importers |-> uGarbage]
    /\ redirect_count = [w \in Importers |-> 0]
    /\ requests = [w \in Importers |-> 0]
    /\ validation = [w \in Importers |-> NoValidation]
    /\ content = [w \in Importers |-> NoContent]
    /\ connected = [w \in Importers |-> NoAddress]
    /\ \E p \in WidePages \cup { PagePancakes }, answered \in BOOLEAN :
          /\ answered => p = PagePancakes
          /\ page = [w \in Importers |-> IF w = "w1" THEN p ELSE PageBare]
          /\ extraction_method = [w \in Importers |->
                                     IF w = "w1" THEN pre_llm_method(p) ELSE ""]
          /\ claude = [w \in Importers |->
                          IF w # "w1" THEN "not called"
                          ELSE IF answered THEN "json" ELSE "no api key"]
          /\ gpt = [w \in Importers |->
                       IF w = "w1" /\ ~answered THEN "no api key" ELSE "not called"]
          /\ \E data \in WideLlmAnswers :
                llm_result = [w \in Importers |->
                                 IF w = "w1" /\ answered
                                 THEN LlmResult("data", data) ELSE NoResult]
          /\ api_calls = [w \in Importers |->
                             IF w = "w1" /\ answered
                             THEN [claude |-> 1, gpt |-> 0] ELSE NoApiCalls]
          /\ breaker_calls = [w \in Importers |->
                IF w # "w1" THEN NoBreakerCalls
                ELSE IF answered
                THEN [can_attempt_llm |-> 1, record_llm_failure |-> 0, record_llm_success |-> 1]
                ELSE [can_attempt_llm |-> 1, record_llm_failure |-> 2, record_llm_success |-> 0]]
          /\ breaker_op = [w \in Importers |->
                IF w # "w1" THEN NoBreakerOp
                ELSE IF answered THEN BreakerOp("record_llm_success", "store_error", "None")
                ELSE BreakerOp("record_llm_failure", "store_error", "False")]
    /\ outcome = [w \in Importers |-> Pending]
    /\ parsed = NoCall
    /\ timer = NoTimer
    /\ tasks = {}
    /\ utcnow = 0

NextBuild == Build("w1") \/ CacheWrite("w1") \/ Finish("w1")

SpecBuild == InitBuild /\ [][NextBuild]_vars

\* fetch_html with the body read chunk by chunk
ReadStep(w) == StartReading(w) \/ ReadChunk(w) \/ ReturnContent(w)

NextBody ==
    \/ StartImport("w1")
    \/ CacheCheck("w1")
    \/ FetchStart("w1")
    \/ SendRequest("w1")
    \/ ReadStep("w1")
    \/ Finish("w1")

SpecBody == Init /\ [][NextBody]_vars

\* ------------------------------------------------------------------------
\* The duration parsers called on their own, as the unit tests call them
\* ------------------------------------------------------------------------
\* a str argument, or None
Str(text) == [null |-> FALSE, text |-> text]
NoStr == [null |-> TRUE, text |-> EmptyText]

HoursText(n) == Txt(<< ToString(n), "hours" >>)
RangeText(a, b) == Txt(<< ToString(a), "to", ToString(b), "minutes" >>)

DurationTexts ==
    { HoursText(n) : n \in 1..MaxNumber }
    \cup { RangeText(a, b) : a \in 1..MaxNumber, b \in 1..MaxNumber }
    \cup { Txt(<< ToString(n), unit >>) : n \in { 1, 8, 30 },
                                          unit \in { "hr", "minutes", "min", "seconds" } }
    \cup { Txt(<<"8", "-", "10", "minutes">>), Txt(<<"Bake", "for", "20", "minutes">>),
           Txt(<<"Mix", "well">>), Txt(<<"Stir">>), EmptyText }

\* if not text: return None
parse_duration_to_seconds_of(arg) ==
    IF arg.null THEN None ELSE parse_duration_to_seconds(arg.text)

CallParseDuration ==
    /\ parsed = NoCall
    /\ \E arg \in { Str(t) : t \in DurationTexts } \cup { NoStr } :
          parsed' = Call("parse_duration_to_seconds", arg, parse_duration_to_seconds_of(arg))
    /\ UNCHANGED << now, aware_timestamps, timer_vars, store_vars, pc, url, fetch_vars, llm_vars,
                    extraction_method, outcome >>

\* "PT{h}H{m}M" with either part left out, and "PT0S"
IsoTexts ==
    { Iso(None, h, m) : h \in { None } \cup 0..MaxNumber, m \in { None } \cup 0..MaxNumber }

CallParseIso ==
    /\ parsed = NoCall
    /\ \E arg \in IsoTexts :
          parsed' = Call("parse_iso8601_duration", arg, parse_iso8601_duration(arg))
    /\ UNCHANGED << now, aware_timestamps, timer_vars, store_vars, pc, url, fetch_vars, llm_vars,
                    extraction_method, outcome >>

\* step lists as the tests build them: estimated_time missing, zero or some
\* minutes; the order is the position or runs ahead of it
EstimatedTimes == { None, 0, 1, 10, 20 }
StepInstructions == { Txt(<<"Mix", "well">>), Txt(<<"Bake", "for", "20", "minutes">>) }
StepsAt(i) ==
    { Step(order, text, minutes) : order \in { i, i + 1 }, text \in StepInstructions,
                                   minutes \in EstimatedTimes }
StepLists ==
    UNION { { steps \in [1..n -> UNION { StepsAt(i) : i \in 1..n }] :
                \A i \in 1..n : steps[i] \in StepsAt(i) } : n \in 0..MaxStepList }

CallDeriveTimers ==
    /\ parsed = NoCall
    /\ \E steps \in StepLists :
          parsed' = Call("derive_timers_from_steps", steps, derive_timers_from_steps(steps))
    /\ UNCHANGED << now, aware_timestamps, timer_vars, store_vars, pc, url, fetch_vars, llm_vars,
                    extraction_method, outcome >>

\* the caller is done with the result
ForgetCall ==
    /\ parsed # NoCall
    /\ parsed' = NoCall
    /\ UNCHANGED << now, aware_timestamps, timer_vars, store_vars, pc, url, fetch_vars, llm_vars,
                    extraction_method, outcome >>

NextParse == CallParseDuration \/ CallParseIso \/ CallDeriveTimers \/ ForgetCall

SpecParse == Init /\ [][NextParse]_vars

\* ------------------------------------------------------------------------
\* Two workers import the same URL at the same time: both handlers have
\* called parse_recipe for uPancakes, the cache is empty, the circuit closed.
\* The site answers each request with the page.
\* ------------------------------------------------------------------------
InitTwo ==
    /\ now = 0
    /\ aware_timestamps \in BOOLEAN
    /\ circuit = Circuit(0, None, FALSE)
    /\ cache = {}
    /\ pc = [w \in Importers |-> "cache_check"]
    /\ url = [w \in Importers |-> uPancakes]
    /\ current_url = [w \in Importers |-> uGarbage]
    /\ redirect_count = [w \in Importers |-> 0]
    /\ requests = [w \in Importers |-> 0]
    /\ validation = [w \in Importers |-> NoValidation]
    /\ content = [w \in Importers |-> NoContent]
    /\ connected = [w \in Importers |-> NoAddress]
    /\ page = [w \in Importers |-> PageBare]
    /\ extraction_method = [w \in Importers |-> ""]
    /\ claude = [w \in Importers |-> "not called"]
    /\ gpt = [w \in Importers |-> "not called"]
    /\ llm_result = [w \in Importers |-> NoResult]
    /\ api_calls = [w \in Importers |-> NoApiCalls]
    /\ breaker_calls = [w \in Importers |-> NoBreakerCalls]
    /\ breaker_op = [w \in Importers |-> NoBreakerOp]
    /\ outcome = [w \in Importers |-> Pending]
    /\ parsed = NoCall
    /\ timer = NoTimer
    /\ tasks = {}
    /\ utcnow = 0

\* one step of one of the two imports
Step2(w) ==
    \/ CacheCheck(w)
    \/ FetchStart(w)
    \/ SendRequest(w)
    \/ HtmlResponse(w)
    \/ Extract(w)
    \/ CanAttempt(w)
    \/ CallClaude(w)
    \/ ClaudeFailed(w)
    \/ ClaudeSucceeded(w)
    \/ CallGpt(w)
    \/ GptFailed(w)
    \/ GptSucceeded(w)
    \/ Build(w)
    \/ CacheWrite(w)

NextTwo == \E w \in Importers : Step2(w)

SpecTwo == InitTwo /\ [][NextTwo]_vars

\* ------------------------------------------------------------------------
\* Two workers normalize a recipe at the same time over the one circuit row.
\* Each has fetched the page and extracted its draft and is about to call
\* normalize_recipe_with_llm.
\* ------------------------------------------------------------------------
InitBreaker ==
    /\ now = 0
    /\ aware_timestamps \in BOOLEAN
    \* the row the migration inserts, or the row after four failed provider
    \* calls of this minute
    /\ circuit \in { Circuit(0, None, FALSE), Circuit(FAILURE_THRESHOLD - 1, 0, FALSE) }
    /\ cache = {}
    /\ pc = [w \in Importers |-> "can_attempt"]
    /\ url = [w \in Importers |-> uPancakes]
    /\ current_url = [w \in Importers |-> uGarbage]
    /\ redirect_count = [w \in Importers |-> 0]
    /\ requests = [w \in Importers |-> 0]
    /\ validation = [w \in Importers |-> NoValidation]
    /\ content = [w \in Importers |-> NoContent]
    /\ connected = [w \in Importers |-> NoAddress]
    /\ page = [w \in Importers |-> PagePancakes]
    /\ extraction_method = [w \in Importers |-> pre_llm_method(PagePancakes)]
    /\ claude = [w \in Importers |-> "not called"]
    /\ gpt = [w \in Importers |-> "not called"]
    /\ llm_result = [w \in Importers |-> NoResult]
    /\ api_calls = [w \in Importers |-> NoApiCalls]
    /\ breaker_calls = [w \in Importers |-> NoBreakerCalls]
    /\ breaker_op = [w \in Importers |-> NoBreakerOp]
    /\ outcome = [w \in Importers |-> Pending]
    /\ parsed = NoCall
    /\ timer = NoTimer
    /\ tasks = {}
    /\ utcnow = 0

\* normalize_recipe_with_llm is back; the worker's next import of the page
\* reaches its own normalize_recipe_with_llm call with fresh locals
NormalizeAgain(w) ==
    /\ pc[w] = "build"
    /\ pc' = [pc EXCEPT ![w] = "can_attempt"]
    /\ claude' = [claude EXCEPT ![w] = "not called"]
    /\ gpt' = [gpt EXCEPT ![w] = "not called"]
    /\ llm_result' = [llm_result EXCEPT ![w] = NoResult]
    /\ api_calls' = [api_calls EXCEPT ![w] = NoApiCalls]
    /\ breaker_calls' = [breaker_calls EXCEPT ![w] = NoBreakerCalls]
    /\ breaker_op' = [breaker_op EXCEPT ![w] = NoBreakerOp]
    /\ UNCHANGED << env_vars, store_vars, url, fetch_vars, extraction_method, outcome >>

\* one step of one worker's normalize_recipe_with_llm call
StepBreaker(w) ==
    \/ CanAttempt(w)
    \/ ResetCircuit(w)
    \/ CallClaude(w)
    \/ ClaudeFailed(w)
    \/ ClaudeSucceeded(w)
    \/ CallGpt(w)
    \/ GptFailed(w)
    \/ GptSucceeded(w)

NextBreaker == (\E w \in Importers : StepBreaker(w)) \/ Tick

SpecBreaker == InitBreaker /\ [][NextBreaker]_vars

\* the normalize_recipe_with_llm calls of one worker, import after import; the
\* other worker is not scheduled
NextNormalize == StepBreaker("w1") \/ NormalizeAgain("w1") \/ Tick

SpecNormalize == InitBreaker /\ [][NextNormalize]_vars

\* ------------------------------------------------------------------------
\* One import from the point where fetch_html has returned the document of
\* uRecipe: extraction, normalization, mapping, validation, cache write.
\* ------------------------------------------------------------------------
InitOnce ==
    /\ now = 0
    /\ aware_timestamps \in BOOLEAN
    /\ circuit = Circuit(0, None, FALSE)
    /\ cache = {}
    /\ pc = [w \in Importers |-> IF w = "w1" THEN "extract" ELSE "idle"]
    /\ url = [w \in Importers |-> IF w = "w1" THEN uRecipe ELSE uGarbage]
    /\ current_url = [w \in Importers |-> uGarbage]
    /\ redirect_count = [w \in Importers |-> 0]
    /\ requests = [w \in Importers |-> 0]
    /\ validation = [w \in Importers |-> NoValidation]
    /\ content = [w \in Importers |-> NoContent]
    /\ connected = [w \in Importers |-> NoAddress]
    /\ \E p \in PagesAt(uRecipe) :
          page = [w \in Importers |-> IF w = "w1" THEN p ELSE PageBare]
    /\ extraction_method = [w \in Importers |-> ""]
    /\ claude = [w \in Importers |-> "not called"]
    /\ gpt = [w \in Importers |-> "not called"]
    /\ llm_result = [w \in Importers |-> NoResult]
    /\ api_calls = [w \in Importers |-> NoApiCalls]
    /\ breaker_calls = [w \in Importers |-> NoBreakerCalls]
    /\ breaker_op = [w \in Importers |-> NoBreakerOp]
    /\ outcome = [w \in Importers |-> Pending]
    /\ parsed = NoCall
    /\ timer = NoTimer
    /\ tasks = {}
    /\ utcnow = 0

NextOnce ==
    \/ Extract("w1")
    \/ CanAttempt("w1")
    \/ CallClaude("w1")
    \/ ClaudeFailed("w1")
    \/ ClaudeSucceeded("w1")
    \/ CallGpt("w1")
    \/ GptFailed("w1")
    \/ GptSucceeded("w1")
    \/ Build("w1")
    \/ CacheWrite("w1")

SpecOnce == InitOnce /\ [][NextOnce]_vars

\* ------------------------------------------------------------------------
\* Cooking timers: models/cooking_session.py, routes/cooking_sessions.py,
\* services/timer_service.py. One timer of one session; time in seconds.
\* ------------------------------------------------------------------------
\* return self.paused_at is not None and not self.completed_at
is_paused(t) == t.paused_at # None /\ t.completed_at = None

is_completed(t) == t.completed_at # None

is_running(t) == t.is_active /\ ~is_paused(t) /\ ~is_completed(t)

\* ActiveTimer.get_remaining_time at datetime.utcnow() = at
get_remaining_time(t, at) ==
    IF is_completed(t) THEN 0
    ELSE IF is_paused(t)
         THEN (IF t.remaining_time = None THEN 0 ELSE t.remaining_time)   \* remaining_time or 0
    ELSE LET remaining == t.duration - (at - t.started_at)
         IN IF remaining > 0 THEN remaining ELSE 0

schedule_timer_completion(queue, at, duration) == queue \cup { Task(at, duration) }

\* POST /<session_id>/timers
start_timer ==
    /\ ~timer.exists
    /\ \E duration \in 1..MaxDuration, db_ok \in BOOLEAN :
          IF db_ok
          THEN /\ timer' = ActiveTimer(TRUE, duration, utcnow, None, None, None, TRUE, duration, 0)
               /\ tasks' = schedule_timer_completion(tasks, utcnow, duration)
          ELSE UNCHANGED << timer, tasks >>
    /\ UNCHANGED << now, aware_timestamps, parsed, utcnow, store_vars, pc, url, fetch_vars,
                    llm_vars, extraction_method, outcome >>

\* POST .../timers/<timer_id>/pause: paused_at is assigned first, then
\* remaining_time = timer.get_remaining_time() is read from the object that
\* already counts as paused
pause_timer ==
    /\ timer.exists
    /\ \E db_ok \in BOOLEAN :
          IF is_paused(timer) \/ is_completed(timer) \/ ~db_ok
          THEN UNCHANGED timer
          ELSE LET marked == [timer EXCEPT !.paused_at = utcnow]
               IN timer' = [marked EXCEPT !.remaining_time = get_remaining_time(marked, utcnow)]
    /\ UNCHANGED << now, aware_timestamps, parsed, tasks, utcnow, store_vars, pc, url,
                    fetch_vars, llm_vars, extraction_method, outcome >>

\* POST .../timers/<timer_id>/resume
resume_timer ==
    /\ timer.exists
    /\ \E db_ok \in BOOLEAN :
          IF ~is_paused(timer) \/ ~db_ok
          THEN UNCHANGED << timer, tasks >>
          ELSE /\ timer' = [timer EXCEPT !.started_at = utcnow, !.paused_at = None,
                                         !.duration = timer.remaining_time]
               /\ tasks' = schedule_timer_completion(tasks, utcnow, timer'.duration)
    /\ UNCHANGED << now, aware_timestamps, parsed, utcnow, store_vars, pc, url, fetch_vars,
                    llm_vars, extraction_method, outcome >>

\* POST .../timers/<timer_id>/cancel
cancel_timer ==
    /\ timer.exists
    /\ \E db_ok \in BOOLEAN :
          IF db_ok
          THEN timer' = [timer EXCEPT !.completed_at = utcnow, !.is_active = FALSE]
          ELSE UNCHANGED timer
    /\ UNCHANGED << now, aware_timestamps, parsed, tasks, utcnow, store_vars, pc, url,
                    fetch_vars, llm_vars, extraction_method, outcome >>

\* the Celery worker runs a complete_timer task whose countdown is over
complete_timer ==
    /\ \E task \in tasks :
          /\ task.eta <= utcnow
          /\ tasks' = tasks \ { task }
    /\ IF timer.exists /\ timer.is_active /\ ~is_paused(timer)
       THEN timer' = [timer EXCEPT !.completed_at = utcnow, !.is_active = FALSE]
       ELSE UNCHANGED timer
    /\ UNCHANGED << now, aware_timestamps, parsed, utcnow, store_vars, pc, url, fetch_vars,
                    llm_vars, extraction_method, outcome >>

\* a second passes; a running timer counts down
SecondPasses ==
    /\ utcnow < MaxSeconds
    /\ utcnow' = utcnow + 1
    /\ timer' = IF timer.exists /\ is_running(timer) THEN [timer EXCEPT !.ran = @ + 1] ELSE timer
    /\ UNCHANGED << now, aware_timestamps, parsed, tasks, store_vars, pc, url, fetch_vars,
                    llm_vars, extraction_method, outcome >>

NextTimer ==
    \/ start_timer
    \/ pause_timer
    \/ resume_timer
    \/ cancel_timer
    \/ complete_timer
    \/ SecondPasses

SpecTimer == Init /\ [][NextTimer]_vars

\* half a day passes
HalfDayPasses ==
    /\ now < MaxLongTime
    /\ now' = now + LongTick
    /\ UNCHANGED << aware_timestamps, parsed, timer_vars, store_vars, pc, url, fetch_vars, llm_vars,
                    extraction_method, outcome >>

\* the user submits the URL of the unchanging page once more
ImportAgain(w) ==
    /\ pc[w] = "idle"
    /\ url' = [url EXCEPT ![w] = uPancakes]
    /\ pc' = [pc EXCEPT ![w] = "cache_check"]
    /\ UNCHANGED << env_vars, store_vars, fetch_vars, llm_vars, extraction_method, outcome >>

\* one worker imports the unchanging page again and again on a clock coarse
\* enough for cache rows to age past the TTL
NextDays ==
    \/ Step2("w1")
    \/ ResetCircuit("w1")
    \/ Finish("w1")
    \/ ImportAgain("w1")
    \/ HalfDayPasses

SpecDays == Init /\ [][NextDays]_vars

\* ========================================================================
\* Properties
\* ========================================================================
InFetch(w) == pc[w] \in { "request", "response" }

\* C1: in fetch_html every request that is issued, the first one and each one
\* after a redirect, goes to the URL that the last validate_url_safe call of
\* this fetch judged safe; when a redirect target fails validation the fetch
\* raises and has sent exactly one request per earlier hop, none to the target.
RequestsGoToValidatedUrl ==
    \A w \in Importers :
        /\ InFetch(w) =>
              /\ validation[w].called
              /\ validation[w].safe
              /\ validation[w].url = current_url[w]
        /\ (pc[w] = "done" /\ outcome[w].reason = "Redirect to unsafe URL") =>
              /\ validation[w].called
              /\ ~validation[w].safe
              /\ requests[w] = redirect_count[w]

\* C1 witness: a request has been issued to a redirect target on another host
RequestAfterRedirect ==
    \E w \in Importers :
        /\ pc[w] = "response"
        /\ redirect_count[w] >= 1
        /\ url[w] = uRecipe
        /\ current_url[w] = uWww

\* the sample addresses that lie outside every listed range
PublicAddresses == { Public4, Public172, Public6 }

AllPublic(addrs) == \A i \in 1..Len(addrs) : addrs[i] \in PublicAddresses

UnsafeByRule(u, answer) ==
    \/ u.scheme \notin { "http", "https" }
    \/ u.host = ""
    \/ Lower(u.host) \in BLOCKED_DOMAINS
    \/ ~answer.ok
    \/ ~AllPublic(answer.addrs)

\* C2: validate_url_safe answers unsafe whenever the scheme is not http/https,
\* the host is absent or denylisted, resolution fails, or any resolved address
\* (either family, malformed ones included) is not public; it answers safe
\* only when resolution succeeded and every resolved address is public.
ValidatorVerdictFollowsRules ==
    \A w \in Importers :
        validation[w].called =>
            /\ UnsafeByRule(validation[w].url, validation[w].answer) => ~validation[w].safe
            /\ validation[w].safe =>
                  /\ validation[w].answer.ok
                  /\ AllPublic(validation[w].answer.addrs)

\* C2 witness: a host whose first address is public and a later one is not
MixedAnswerRejected ==
    \E w \in Importers :
        /\ validation[w].called
        /\ ~validation[w].safe
        /\ validation[w].answer.ok
        /\ Len(validation[w].answer.addrs) >= 2
        /\ validation[w].answer.addrs[1] \in PublicAddresses

\* the circuit is open and the cooldown since last_failure_at has not elapsed
CoolingDown ==
    /\ circuit.is_open
    /\ circuit.last_failure_at # None
    /\ now < circuit.last_failure_at + COOLDOWN_MINUTES

\* the circuit is open and the cooldown since last_failure_at has elapsed
CooledDown ==
    /\ circuit.is_open
    /\ circuit.last_failure_at # None
    /\ now >= circuit.last_failure_at + COOLDOWN_MINUTES

\* C3: while the circuit is open and cooling down, no request is sent to either
\* normalization provider.
NoProviderCallWhileCoolingDown ==
    [][ \A w \in Importers :
            api_calls'[w] # api_calls[w] /\ pc[w] \in { "claude", "gpt" } => ~CoolingDown ]_vars

\* importer w gets the answer of can_attempt_llm in this step, and the store
\* did not fail while it ran
CanAttemptAnswers(w) ==
    /\ pc[w] \in { "can_attempt", "reset_circuit" }
    /\ pc'[w] \in { "claude", "gpt" }
    /\ breaker_op'[w].path # "store_error"

\* C4: once FAILURE_THRESHOLD failures in a row have opened the circuit, every
\* can_attempt_llm call made before last_failure_at + cooldown returns False.
OpenCircuitRefusesAttempts ==
    [][ \A w \in Importers :
            ( /\ CanAttemptAnswers(w)
              /\ circuit.consecutive_failures >= FAILURE_THRESHOLD
              /\ CoolingDown )
            => breaker_op'[w].ret = "False" ]_vars

\* C5: when the circuit is open and the cooldown has elapsed, the next
\* can_attempt_llm call returns True and leaves consecutive_failures = 0 and
\* is_open = false (the half of the claim about an elapsed cooldown; the other
\* half is the refusal stated for C4).
CooldownResetsCircuit ==
    [][ \A w \in Importers :
            (CanAttemptAnswers(w) /\ CooledDown) =>
                /\ breaker_op'[w].ret = "True"
                /\ circuit'.consecutive_failures = 0
                /\ ~circuit'.is_open ]_vars

\* the ways a provider is unavailable
Unavailable == { "circuit open", "no api key", "api exception", "invalid json" }

BothProvidersUnavailable(w) ==
    /\ claude[w] \in Unavailable
    /\ gpt[w] \in Unavailable

\* C6: when the page was fetched and both providers were unavailable, the
\* import returns a recipe; it does not raise.
FallbackAlwaysReturns ==
    \A w \in Importers :
        (pc[w] = "done" /\ extraction_method[w] # "" /\ BothProvidersUnavailable(w))
        => outcome[w].status = "returned"

\* C7: when the circuit store raises, can_attempt_llm returns True and the
\* primary provider is not skipped, record_llm_failure returns False,
\* record_llm_success returns None, and the import goes on.
BreakerFailsOpen ==
    \A w \in Importers :
        breaker_op[w].path = "store_error" =>
            /\ breaker_op[w].op = "can_attempt_llm" =>
                  /\ breaker_op[w].ret = "True"
                  /\ claude[w] # "circuit open"
                  /\ pc[w] \in { "claude", "claude_failed", "claude_succeeded" }
            /\ breaker_op[w].op = "record_llm_failure" => breaker_op[w].ret = "False"
            /\ breaker_op[w].op = "record_llm_success" => breaker_op[w].ret = "None"
            /\ outcome[w].status \in { "pending", "validated", "returned",
                                       "KeyError", "ValidationError" }

\* C7 witness: the store failed under can_attempt_llm and the primary provider
\* was called all the same
PrimaryCalledDespiteStoreError ==
    \E w \in Importers :
        /\ breaker_op[w] = BreakerOp("can_attempt_llm", "store_error", "True")
        /\ api_calls[w].claude = 1

NoUsableResult == { "circuit open", "no api key", "api exception", "invalid json",
                    "falsy json" }

\* C8: within one normalize_recipe_with_llm call call_claude is entered at most
\* once and call_gpt at most once, call_gpt only after call_claude came back
\* without a result, and when both come back without one the result is None.
SingleHopFailover ==
    \A w \in Importers :
        /\ breaker_calls[w].can_attempt_llm <= 1
        /\ api_calls[w].claude <= 1
        /\ api_calls[w].gpt <= 1
        /\ breaker_calls[w].record_llm_failure + breaker_calls[w].record_llm_success <= 2
        /\ gpt[w] # "not called" => claude[w] \in NoUsableResult
        /\ (pc[w] = "build" /\ claude[w] \in NoUsableResult /\ gpt[w] \in NoUsableResult)
              => llm_result[w] = NoResult

\* C8 witness: both providers were called once and normalization came back None
BothCalledOnceAndFailed ==
    \E w \in Importers :
        /\ pc[w] = "build"
        /\ api_calls[w] = [claude |-> 1, gpt |-> 1]
        /\ claude[w] = "api exception"
        /\ gpt[w] = "invalid json"
        /\ llm_result[w] = NoResult

PrimaryErrors == { "no api key", "api exception", "invalid json" }
AfterPrimary == { "gpt", "gpt_failed", "gpt_succeeded", "build", "cache_write", "done" }

ReportedMethodIsPreNormalization ==
    \A w \in Importers :
        (pc[w] = "done" /\ outcome[w].status = "returned" /\ outcome[w].method # "cached")
        => outcome[w].method = IF llm_result[w].kind = "data" THEN "ai"
                               ELSE pre_llm_method(page[w])

\* C11: for the page with a Recipe block (prepTime PT10M, cookTime PT20M, two
\* ingredient strings, two instruction strings), when normalization comes back
\* empty the import returns method "heuristic", prep_time 10, cook_time 20 and
\* exactly the two ingredients, each split into its quantity and its name.
StructuredFixtureFallsBack ==
    \A w \in Importers :
        (pc[w] = "done" /\ page[w] = PagePancakes /\ llm_result[w].kind = "None") =>
            /\ outcome[w].status = "returned"
            /\ outcome[w].method = "heuristic"
            /\ outcome[w].recipe.prep_time = 10
            /\ outcome[w].recipe.cook_time = 20
            /\ outcome[w].recipe.ingredients =
                  << Ingredient(Txt(<<"flour">>), Txt(<<"2", "cups">>)),
                     Ingredient(Txt(<<"salt">>), Txt(<<"1", "tsp">>)) >>

\* C11 witness: the import of that page has ended after both providers failed
StructuredFixtureImported ==
    \E w \in Importers :
        /\ pc[w] = "done"
        /\ page[w] = PagePancakes
        /\ BothProvidersUnavailable(w)
        /\ outcome[w].status = "returned"

RowsOf(rows, u) == { row \in rows : row.url_hash = get_url_hash(u) }

\* C12: an import that ends at the cache lookup returns, with method "cached",
\* the recipe read back from a fresh row of its URL, and has validated no URL,
\* sent no request, called no provider and no circuit-breaker function, and
\* left the circuit row and the cache as they were; and what is read back from
\* a row is field for field the recipe that was written into it (an empty
\* image_url included).
CacheHitReturnsStoredRecipe ==
    [][ \A w \in Importers :
            /\ (pc[w] = "cache_check" /\ pc'[w] = "done") =>
                  /\ outcome'[w].status = "returned"
                  /\ outcome'[w].method = "cached"
                  /\ \E row \in FreshRows(cache, get_url_hash(url[w]), now) :
                        outcome'[w].recipe = from_jsonb(row.recipe_data)
                  /\ validation'[w] = NoValidation
                  /\ requests'[w] = 0
                  /\ api_calls'[w] = NoApiCalls
                  /\ breaker_calls'[w] = NoBreakerCalls
                  /\ circuit' = circuit
                  /\ cache' = cache
            /\ (pc[w] = "cache_write" /\ cache' # cache) =>
                  \A row \in RowsOf(cache', url[w]) :
                      from_jsonb(row.recipe_data) = outcome[w].recipe ]_vars

\* C12 witness: a cached recipe whose image_url is the empty string was returned
CachedRecipeWithoutImageReturned ==
    \E w \in Importers :
        /\ pc[w] = "done"
        /\ outcome[w].status = "returned"
        /\ outcome[w].method = "cached"
        /\ outcome[w].recipe.image_url = EmptyText
        /\ outcome[w].recipe.ingredients # <<>>

StaleRowOnly(w) ==
    /\ RowsOf(cache, url[w]) # {}
    /\ \A row \in RowsOf(cache, url[w]) : now - row.cached_at >= TTL_MINUTES

\* C13: when the only row of the URL is older than the TTL the lookup goes on
\* to the fetch as on a miss and returns nothing as "cached"; the cache write of
\* that import, when it changes the cache, leaves exactly one row for the URL,
\* holding the new recipe with cached_at = now.
StaleRowIsAMiss ==
    [][ \A w \in Importers :
            /\ (pc[w] = "cache_check" /\ StaleRowOnly(w)) =>
                  /\ pc'[w] = "fetch"
                  /\ outcome'[w] = Pending
            /\ (pc[w] = "cache_write" /\ cache' # cache) =>
                  RowsOf(cache', url[w]) =
                      { CacheRow(get_url_hash(url[w]), to_jsonb(outcome[w].recipe), now) } ]_vars

\* C13 witness: an import that found only a row older than the TTL has fetched,
\* built and validated a recipe again and is about to write it
StaleRowAboutToBeReplaced ==
    \E w \in Importers :
        /\ pc[w] = "cache_write"
        /\ StaleRowOnly(w)
        /\ outcome[w].method \in { "ai", "heuristic" }

\* C14: whatever the store does during the cache lookup, the import either
\* returns the cached recipe or goes on to the fetch with nothing else changed,
\* as on a miss; whatever it does during the cache write, the import returns
\* the recipe it validated and the method it had.
CacheErrorsNeverFailImport ==
    [][ \A w \in Importers :
            /\ (pc[w] = "cache_check" /\ pc'[w] # "cache_check") =>
                  \/ /\ pc'[w] = "fetch"
                     /\ outcome'[w] = Pending
                     /\ cache' = cache
                  \/ /\ pc'[w] = "done"
                     /\ outcome'[w].status = "returned"
                     /\ outcome'[w].method = "cached"
            /\ (pc[w] = "cache_write" /\ pc'[w] # "cache_write") =>
                  /\ pc'[w] = "done"
                  /\ outcome'[w] = Returned(outcome[w].method, outcome[w].recipe)
                  /\ ImportedRecipeValid(outcome'[w].recipe) ]_vars

\* C14 witness: the lookup failed although a fresh row of the URL exists, and
\* the import went on to the fetch
LookupFailedImportGoesOn ==
    \E w \in Importers :
        /\ pc[w] = "fetch"
        /\ FreshRows(cache, get_url_hash(url[w]), now) # {}

FetchErrors ==
    { "Unsafe URL", "Redirect to unsafe URL", "Request timeout", "Could not connect",
      "HTTP request failed", "Too many redirects", "Redirect without Location header",
      "HTTP error status", "Not HTML content", "Response too large",
      "Connection interrupted while reading response" }

\* C15: while an import is in fetch_html the circuit row and the cache stay as
\* they are and no URL is requested a second time; when the fetch ends the
\* import it ends it with a ValueError for the rejection or the transport
\* failure, with no page extracted, no provider called and no circuit-breaker
\* function called.
FetchFailureEndsImport ==
    [][ \A w \in Importers :
            pc[w] \in { "fetch", "request", "response" } =>
                /\ circuit' = circuit
                /\ cache' = cache
                /\ pc'[w] \in { "fetch", "request", "response", "done", "extract" }
                /\ pc'[w] \in { "request", "response" } =>
                      requests'[w] <= redirect_count'[w] + 1
                /\ pc'[w] = "done" =>
                      /\ outcome'[w].status = "ValueError"
                      /\ outcome'[w].reason \in FetchErrors
                      /\ page'[w] = PageBare
                      /\ extraction_method'[w] = ""
                      /\ api_calls'[w] = NoApiCalls
                      /\ breaker_calls'[w] = NoBreakerCalls ]_vars

\* C15 witness: an import ended by a connection error on the second hop
ImportEndedByTransportFailure ==
    \E w \in Importers :
        /\ pc[w] = "done"
        /\ outcome[w] = Raised("ValueError", "Could not connect")
        /\ redirect_count[w] = 1
        /\ requests[w] = 2

RedirectBudgetKept ==
    \A w \in Importers :
        /\ requests[w] <= MAX_REDIRECTS + 1
        /\ pc[w] \in { "request", "response" } => redirect_count[w] <= MAX_REDIRECTS
        /\ (pc[w] = "done" /\ redirect_count[w] > MAX_REDIRECTS) =>
              /\ outcome[w] = Raised("ValueError", "Too many redirects")
              /\ redirect_count[w] = MAX_REDIRECTS + 1
              /\ requests[w] = MAX_REDIRECTS + 1

\* C16: fetch_html follows at most MAX_REDIRECTS redirects and issues at most
\* MAX_REDIRECTS + 1 requests; a redirect answer to the last of them raises
\* "Too many redirects"; and every call of fetch_html ends, returning a page or
\* raising, whatever the chain of redirects (a cycle included), as long as
\* every request returns or times out.
FetchTerminatesWithinBudget ==
    /\ []RedirectBudgetKept
    /\ \A w \in Importers :
          (pc[w] \in { "fetch", "request", "response" }) ~> (pc[w] \in { "done", "extract" })

\* C16 witness: a chain that redirects back to the start URL was cut after
\* MAX_REDIRECTS + 1 requests
RedirectCycleCut ==
    \E w \in Importers :
        /\ pc[w] = "done"
        /\ outcome[w] = Raised("ValueError", "Too many redirects")
        /\ current_url[w] = url[w]
        /\ requests[w] = MAX_REDIRECTS + 1

\* ------------------------------------------------------------------------
\* import_recipe_endpoint: the status the route answers with
\* ------------------------------------------------------------------------
\* the exceptions an `except ValueError` clause catches: pydantic's
\* ValidationError derives from ValueError, KeyError does not
is_ValueError(exception) == exception \in { "ValueError", "ValidationError" }

http_status(result) ==
    IF result.status = "returned" THEN 200
    ELSE IF is_ValueError(result.status) THEN 400
    ELSE 422

\* C17: an import that ends with a URL or fetch error is answered 400, and an
\* import that ends with a mapping or schema-validation error is answered
\* 422, never 400.
ErrorClassesDisjoint ==
    \A w \in Importers :
        pc[w] = "done" =>
            /\ outcome[w].status = "ValueError" => http_status(outcome[w]) = 400
            /\ outcome[w].status \in { "KeyError", "ValidationError" } =>
                  http_status(outcome[w]) = 422

Oversized(raw) ==
    Len(raw.ingredients) > 50 \/ Len(raw.steps) > 30 \/ Len(raw.timers) > 20

\* C18: when raw_data reaches the final validation with more than 50
\* ingredients, 30 steps or 20 timers, the import returns a recipe holding
\* exactly the first 50 / 30 / 20 items, and truncating that recipe again
\* leaves it unchanged.
OversizedCollectionsTruncated ==
    \A w \in Importers :
        (pc[w] = "done" /\ Oversized(raw_data_of(w))) =>
            /\ outcome[w].status = "returned"
            /\ outcome[w].recipe = ImportedRecipe(raw_data_of(w))
            /\ ImportedRecipe(outcome[w].recipe) = outcome[w].recipe

Clamp(n, lo, hi) == IF n < lo THEN lo ELSE IF n > hi THEN hi ELSE n

NumberOutOfRange(raw) ==
    \/ raw.prep_time > 1440
    \/ raw.cook_time > 1440
    \/ raw.servings < 1
    \/ raw.servings > 100
    \/ \E i \in 1..Len(raw.timers) : raw.timers[i].duration > 28800

\* C19: when a number of raw_data is outside its range at the final
\* validation (prep or cook time above 1440, servings outside 1..100, a timer
\* of more than 28800 seconds), the import returns a recipe with that number
\* clamped into the range and raises no validation error.
OutOfRangeNumbersClamped ==
    \A w \in Importers :
        (pc[w] = "done" /\ NumberOutOfRange(raw_data_of(w)) /\ ~Oversized(raw_data_of(w))) =>
            /\ outcome[w].status = "returned"
            /\ outcome[w].recipe.prep_time = Clamp(raw_data_of(w).prep_time, 0, 1440)
            /\ outcome[w].recipe.cook_time = Clamp(raw_data_of(w).cook_time, 0, 1440)
            /\ outcome[w].recipe.servings = Clamp(raw_data_of(w).servings, 1, 100)
            /\ \A i \in 1..Len(outcome[w].recipe.timers) :
                  outcome[w].recipe.timers[i].duration =
                      Clamp(raw_data_of(w).timers[i].duration, 1, 28800)

\* C20: the draft (structured_data) that parse_recipe has built when the
\* extraction is over, from a Recipe block or from the heuristic extractor,
\* has at least one ingredient line and at least one instruction line.
DraftNeverEmpty ==
    \A w \in Importers :
        pc[w] = "can_attempt" =>
            /\ Len(structured_data_of(page[w]).recipeIngredient) >= 1
            /\ Len(structured_data_of(page[w]).recipeInstructions) >= 1

ImageUrlNeverFabricated ==
    \A w \in Importers :
        (pc[w] = "done" /\ outcome[w].status = "returned" /\ outcome[w].method # "cached") =>
            outcome[w].recipe.image_url \in { EmptyText, structured_data_of(page[w]).image_url }

\* ------------------------------------------------------------------------
\* import_recipe_endpoint: the confidence of the response
\* ------------------------------------------------------------------------
confidence_high_for_ai(method, timers) ==
    IF method = "ai" THEN "high"
    ELSE IF method = "json-ld" THEN "medium"
    ELSE "low"

confidence(method, timers) ==
    IF method = "ai" /\ timers # <<>> THEN "high"
    ELSE IF method \in { "ai", "json-ld" } THEN "medium"
    ELSE "low"

ExtractionMethods == { "json-ld", "heuristic", "ai", "cached" }

ConfidenceOf(method, timers) ==
    IF method = "ai" /\ Len(timers) >= 1 THEN "high"
    ELSE IF method = "ai" \/ method = "json-ld" THEN "medium"
    ELSE "low"

\* C23: the confidence of a response depends on the method and the number
\* of timers only: ai with a timer is high, ai without a timer and json-ld
\* are medium, heuristic and cached are low.
ConfidenceFollowsMethodAndTimers ==
    /\ \A w \in Importers :
          (pc[w] = "done" /\ outcome[w].status = "returned") =>
              confidence(outcome[w].method, outcome[w].recipe.timers) =
                  ConfidenceOf(outcome[w].method, outcome[w].recipe.timers)
    /\ \A method \in ExtractionMethods, n \in TimerCounts :
          confidence(method, Repeat(Timer(Txt(<<"Bake">>), 1200, None), n)) =
              (IF method = "ai" THEN (IF n >= 1 THEN "high" ELSE "medium")
               ELSE IF method = "json-ld" THEN "medium" ELSE "low")

\* C23 witness: an ai recipe without any timer is answered with medium
AiWithoutTimerIsMedium ==
    \E w \in Importers :
        /\ pc[w] = "done"
        /\ outcome[w].status = "returned"
        /\ outcome[w].method = "ai"
        /\ outcome[w].recipe.timers = <<>>
        /\ confidence(outcome[w].method, outcome[w].recipe.timers) = "medium"

\* C24: fetch_html returns no body longer than MAX_SIZE bytes: while it
\* reads, len(content) never stays above MAX_SIZE; it raises "Response too
\* large" with the first chunk that takes the count above MAX_SIZE, and only
\* then; a body of exactly MAX_SIZE bytes is returned.
BodyNeverAboveCeiling ==
    \A w \in Importers :
        /\ content[w].returned # None =>
              /\ content[w].returned <= MAX_SIZE
              /\ content[w].returned = content[w].body
        /\ pc[w] = "read" => content[w].read <= MAX_SIZE
        /\ (pc[w] = "done" /\ content[w].body <= MAX_SIZE) =>
              outcome[w] # Raised("ValueError", "Response too large")
        /\ (pc[w] = "done" /\ content[w].body > MAX_SIZE) =>
              /\ outcome[w] = Raised("ValueError", "Response too large")
              /\ content[w].read > MAX_SIZE
              /\ content[w].read <= MAX_SIZE + CHUNK_SIZE

\* C24 witness: a body of exactly MAX_SIZE bytes was read to its end and returned
FullSizeBodyReturned ==
    \E w \in Importers :
        /\ pc[w] = "extract"
        /\ content[w].body = MAX_SIZE
        /\ content[w].returned = MAX_SIZE

\* C25: whatever the circuit row holds, a record_llm_success whose UPDATE goes
\* through leaves consecutive_failures = 0 and is_open = false and keeps
\* last_failure_at; when the store raises, the row is left as it was.
RecordSuccessClosesCircuit ==
    [][ \A w \in Importers :
            breaker_calls'[w].record_llm_success = breaker_calls[w].record_llm_success + 1 =>
                IF breaker_op'[w].path = "updated"
                THEN /\ circuit'.consecutive_failures = 0
                     /\ circuit'.is_open = FALSE
                     /\ circuit'.last_failure_at = circuit.last_failure_at
                ELSE circuit' = circuit ]_vars

\* C25 witness: a success was recorded on a circuit that had failed before;
\* the time of that failure is still in the row
SuccessRecordedAfterFailures ==
    \E w \in Importers :
        /\ breaker_op[w] = BreakerOp("record_llm_success", "updated", "None")
        /\ circuit.consecutive_failures = 0
        /\ circuit.is_open = FALSE
        /\ circuit.last_failure_at # None

\* C26: a record_llm_failure whose UPDATE goes through adds exactly 1 to
\* consecutive_failures, sets is_open to (the new count >= FAILURE_THRESHOLD)
\* and last_failure_at to the current time, and returns the new is_open:
\* False below the threshold, True from the threshold on.
RecordFailureCountsAndOpens ==
    [][ \A w \in Importers :
            (/\ breaker_calls'[w].record_llm_failure = breaker_calls[w].record_llm_failure + 1
             /\ breaker_op'[w].path = "updated") =>
                /\ circuit'.consecutive_failures = circuit.consecutive_failures + 1
                /\ circuit'.is_open = (circuit'.consecutive_failures >= FAILURE_THRESHOLD)
                /\ circuit'.last_failure_at = now
                /\ breaker_op'[w].ret = (IF circuit'.consecutive_failures < FAILURE_THRESHOLD
                                         THEN "False" ELSE "True") ]_vars

\* C26 witness: the failure that reached the threshold opened the circuit
\* and returned True
ThresholdFailureOpensCircuit ==
    \E w \in Importers :
        /\ breaker_op[w] = BreakerOp("record_llm_failure", "updated", "True")
        /\ circuit.consecutive_failures = FAILURE_THRESHOLD
        /\ circuit.is_open
        /\ circuit.last_failure_at = now

HasTimedInstruction(lines) ==
    \E i \in 1..Len(lines) :
        /\ parse_duration_to_seconds(lines[i]) # None
        /\ parse_duration_to_seconds(lines[i]) > 0

\* C27: when a recipe is returned by the regex fallback and an instruction
\* line of the draft holds a duration that parse_duration_to_seconds finds
\* (hours, minutes or seconds, less than a minute included), the recipe has
\* at least one timer.
TimedInstructionGivesTimer ==
    \A w \in Importers :
        (/\ pc[w] = "done"
         /\ outcome[w].status = "returned"
         /\ outcome[w].method = "heuristic"
         /\ HasTimedInstruction(structured_data_of(page[w]).recipeInstructions)) =>
            Len(outcome[w].recipe.timers) >= 1

\* C28: parse_duration_to_seconds("N hours") is N * 3600 for every positive
\* N; parse_duration_to_seconds("A to B minutes") is (A + B) / 2 * 60, rounded,
\* for all positive A <= B; a text without a duration, the empty string and
\* None give None.
DurationTextParsed ==
    parsed.function = "parse_duration_to_seconds" =>
        /\ \A n \in 1..MaxNumber :
              parsed.argument = Str(HoursText(n)) => parsed.result = n * 3600
        /\ \A a \in 1..MaxNumber, b \in 1..MaxNumber :
              (a <= b /\ parsed.argument = Str(RangeText(a, b))) =>
                  parsed.result = ((a + b) * 60 + 1) \div 2
        /\ parsed.argument \in { Str(Txt(<<"Mix", "well">>)), Str(Txt(<<"Stir">>)),
                                 Str(EmptyText), NoStr } =>
              parsed.result = None

\* C28 witness: "7 to 8 minutes", whose midpoint is not a whole minute, gave 450
HalfMinuteMidpointParsed ==
    /\ parsed.function = "parse_duration_to_seconds"
    /\ parsed.argument = Str(RangeText(7, 8))
    /\ parsed.result = 450

\* C29: parse_iso8601_duration("PT{h}H{m}M") is h * 60 + m for all
\* non-negative h and m, zero included, and None when no day, hour or minute
\* part is in the string ("PT0S").
IsoDurationParsed ==
    parsed.function = "parse_iso8601_duration" =>
        /\ (parsed.argument.h # None /\ parsed.argument.m # None) =>
              parsed.result = parsed.argument.h * 60 + parsed.argument.m
        /\ (parsed.argument.h = None /\ parsed.argument.m = None) =>
              parsed.result = None

ImportedItself(w) ==
    /\ pc[w] = "done"
    /\ outcome[w].status = "returned"
    /\ outcome[w].method # "cached"

\* C30: two imports of the same uncached URL that run at the same time are
\* not coalesced. An import that missed the cache goes on to its own fetch
\* and reaches extraction only from the answer to its own request; a recipe
\* that is not answered from the cache comes from the import's own
\* normalization; whatever the other import does, an import that fetched the
\* page returns a recipe unless its own provider answer lacks a key; and the
\* cache never holds more than one row for the URL hash: a write that changes
\* it leaves exactly the row of the writer.
ConcurrentImportsNotCoalesced ==
    /\ [](\A w \in Importers :
            /\ ImportedItself(w) =>
                  /\ breaker_calls[w].can_attempt_llm = 1
                  /\ extraction_method[w] \in { "ai", "heuristic" }
            /\ (pc[w] = "done" /\ extraction_method[w] # ""
                /\ ~(llm_result[w].kind = "data" /\ ~llm_result[w].data.complete)) =>
                  outcome[w].status = "returned"
            /\ Cardinality(RowsOf(cache, url[w])) <= 1)
    /\ [][ \A w \in Importers :
            /\ (pc[w] = "cache_check" /\ pc'[w] # "cache_check") =>
                  \/ pc'[w] = "fetch"
                  \/ pc'[w] = "done" /\ outcome'[w].method = "cached"
            /\ (pc[w] # "extract" /\ pc'[w] = "extract") =>
                  pc[w] = "response" /\ requests[w] = 1
            /\ (pc[w] = "cache_write" /\ pc'[w] = "done" /\ cache' # cache) =>
                  RowsOf(cache', url[w]) =
                      { CacheRow(get_url_hash(url[w]), to_jsonb(outcome'[w].recipe), now) } ]_vars

\* C30 witness: both imports fetched and normalized for themselves and
\* returned different recipes; the cache holds one row, the recipe of one of them
BothImportedOneRowCached ==
    /\ \A w \in Importers : ImportedItself(w) /\ breaker_calls[w].can_attempt_llm = 1
    /\ outcome["w1"].recipe # outcome["w2"].recipe
    /\ Cardinality(cache) = 1
    /\ \E w \in Importers :
          cache = { CacheRow(get_url_hash(url[w]), to_jsonb(outcome[w].recipe), now) }

\* importer w's record_llm_failure call commits its UPDATE in this step
FailureCommitted(w) ==
    /\ breaker_calls'[w].record_llm_failure = breaker_calls[w].record_llm_failure + 1
    /\ breaker_op'[w].path = "updated"

\* C31: record_llm_failure is atomic under concurrency. Whatever the other
\* worker is doing, and whatever it committed since this worker last looked,
\* each committed record_llm_failure leaves consecutive_failures exactly one
\* above the value the row held just before, and is_open equal to
\* (new count >= threshold): no update is lost, so N concurrent calls with no
\* success or reset in between end N higher.
ConcurrentFailuresAllCounted ==
    [][ \A w \in Importers :
          FailureCommitted(w) =>
             /\ circuit'.consecutive_failures = circuit.consecutive_failures + 1
             /\ circuit'.is_open = (circuit'.consecutive_failures >= FAILURE_THRESHOLD)
             /\ \A v \in Importers \ {w} : breaker_op'[v] = breaker_op[v] ]_vars

\* C31 witness: both workers were inside call_claude / call_gpt at once, the
\* last circuit call of each is a committed record_llm_failure, and the count
\* has reached the threshold
BothWorkersFailuresCounted ==
    /\ \A w \in Importers :
          /\ breaker_op[w].op = "record_llm_failure"
          /\ breaker_op[w].path = "updated"
          /\ pc[w] \in { "gpt", "build" }
    /\ circuit.consecutive_failures >= FAILURE_THRESHOLD
    /\ circuit.is_open

OpenCircuitStaysOpenWhileCooling ==
    [][ CoolingDown => circuit'.is_open ]_vars

\* the rules of the validator can classify u safe for some answer of the resolver
CanBeClassifiedSafe(u) ==
    /\ u.valid
    /\ \E answer \in DnsAnswers(u.host) : ~UnsafeByRule(u, answer)

\* C34: every cache row was written by an import whose URL passed validation
\* and fetch and whose recipe had passed the final schema validation. The
\* cache changes only in the cache-write step of an import that holds a
\* validated recipe, the row written is that recipe under the hash of the
\* import's URL, and the import then returns; a step that ends an import in
\* an error leaves the cache alone. So every row, and with it every cache
\* hit, belongs to a URL that was classified safe.
CacheHoldsOnlyValidatedImports ==
    /\ [](\A row \in cache :
            \E u \in StartUrls :
               row.url_hash = get_url_hash(u) /\ CanBeClassifiedSafe(u))
    /\ [](\A w \in Importers :
            (pc[w] = "done" /\ outcome[w].method = "cached") =>
               CanBeClassifiedSafe(url[w]))
    /\ [][ \A w \in Importers :
            /\ (pc[w] # "done" /\ pc'[w] = "done" /\ outcome'[w].status # "returned") =>
                  cache' = cache
            /\ (cache' # cache /\ pc'[w] # pc[w]) =>
                  /\ pc[w] = "cache_write"
                  /\ outcome[w].status = "validated"
                  /\ extraction_method[w] \in { "ai", "heuristic" }
                  /\ outcome'[w] = Returned(outcome[w].method, outcome[w].recipe)
                  /\ cache' \ cache =
                        { CacheRow(get_url_hash(url[w]), to_jsonb(outcome[w].recipe), now) } ]_vars

\* C34 witness: an import has written its recipe under the hash of its URL
\* and a later import of that URL is answered from the cache with that recipe
CachedImportServedAgain ==
    /\ pc["w1"] = "done"
    /\ outcome["w1"].method = "cached"
    /\ \E row \in cache :
          /\ row.url_hash = get_url_hash(url["w1"])
          /\ from_jsonb(row.recipe_data) = outcome["w1"].recipe

\* the positions of the steps that carry a positive estimated_time
TimedSteps(steps) ==
    { i \in 1..Len(steps) : steps[i].estimated_time # None /\ steps[i].estimated_time > 0 }

\* the k-th of them, counting from the front
KthTimedStep(steps, k) ==
    CHOOSE i \in TimedSteps(steps) : Cardinality({ j \in TimedSteps(steps) : j < i }) = k - 1

\* C35: derive_timers_from_steps returns exactly one timer for each step
\* whose estimated_time is present and greater than 0 and none for any other
\* step, in step order; each timer lasts the step's minutes times 60 and
\* carries that step's order; there are never more timers than steps.
OneTimerPerTimedStep ==
    parsed.function = "derive_timers_from_steps" =>
       LET steps == parsed.argument
           timers == parsed.result
       IN /\ Len(timers) = Cardinality(TimedSteps(steps))
          /\ Len(timers) <= Len(steps)
          /\ \A k \in 1..Len(timers) :
                LET step == steps[KthTimedStep(steps, k)]
                IN /\ timers[k].duration = step.estimated_time * 60
                   /\ timers[k].step_order = step.order

\* C35 witness: three steps, the middle one with estimated_time 0 and the
\* outer ones timed, give the two timers of the outer steps
TimersSkipUntimedStep ==
    /\ parsed.function = "derive_timers_from_steps"
    /\ Len(parsed.argument) = 3
    /\ parsed.argument[1].estimated_time = 10
    /\ parsed.argument[2].estimated_time = 0
    /\ parsed.argument[3].estimated_time = 20
    /\ parsed.argument[3].order = 4
    /\ Len(parsed.result) = 2
    /\ parsed.result[2].duration = 1200
    /\ parsed.result[2].step_order = 4

\* C36: in every reachable circuit state, under any interleaving of
\* record_llm_success, record_llm_failure and can_attempt_llm by the workers,
\* is_open is true exactly when consecutive_failures >= threshold, and
\* consecutive_failures is never negative.
OpenExactlyAtThreshold ==
    /\ circuit.is_open <=> (circuit.consecutive_failures >= FAILURE_THRESHOLD)
    /\ circuit.consecutive_failures >= 0

\* C36 witness: the circuit went past the threshold while a worker that had
\* read it as cooled down still holds its reset
PastThresholdWithPendingReset ==
    /\ circuit.consecutive_failures > FAILURE_THRESHOLD
    /\ circuit.is_open
    /\ \E w \in Importers : pc[w] = "reset_circuit"

\* C37: once the circuit has opened, last_failure_at is not advanced while
\* the circuit stays open, so that continuing import traffic cannot postpone
\* the end of the cooldown and a can_attempt_llm call made cooldown minutes
\* after the opening is allowed.
OpenCircuitKeepsItsFailureTime ==
    [][ (circuit.is_open /\ circuit'.is_open) =>
           circuit'.last_failure_at = circuit.last_failure_at ]_vars

\* the addresses validate_url_safe checked in its last call
CheckedAddresses(w) ==
    { validation[w].answer.addrs[i] : i \in 1..Len(validation[w].answer.addrs) }

\* C38: for every hop, the address the HTTP request of fetch_html connects to
\* is one of the addresses validate_url_safe checked for that hop; the host
\* name is not resolved again after validation, so a DNS answer that changes
\* in between cannot send the request to a private address.
RequestConnectsToCheckedAddress ==
    \A w \in Importers :
       pc[w] = "response" =>
          /\ connected[w] \in CheckedAddresses(w)
          /\ ~is_private_ip(connected[w])

\* C39: whenever the reported method is ai, the returned recipe has exactly
\* one step, the placeholder "Follow recipe instructions from source" with
\* order 1 and no estimated time, however many instruction lines the draft
\* held, and none of its timers has a step_order.
AiRecipeHasOnlyThePlaceholderStep ==
    \A w \in Importers :
        (pc[w] = "done" /\ outcome[w].status = "returned" /\ outcome[w].method = "ai") =>
            LET recipe == outcome[w].recipe
            IN /\ Len(recipe.steps) = 1
               /\ recipe.steps[1].order = 1
               /\ recipe.steps[1].instruction =
                     Txt(<<"Follow", "recipe", "instructions", "from", "source">>)
               /\ recipe.steps[1].estimated_time = None
               /\ \A i \in 1..Len(recipe.timers) : recipe.timers[i].step_order = None

\* C39 witness: the draft held two instruction lines, the provider answered,
\* and the ai recipe carries a timer next to its single step
AiRecipeFromTwoInstructionDraft ==
    \E w \in Importers :
        /\ pc[w] = "done"
        /\ outcome[w].status = "returned"
        /\ outcome[w].method = "ai"
        /\ Len(structured_data_of(page[w]).recipeInstructions) = 2
        /\ Len(outcome[w].recipe.steps) = 1
        /\ Len(outcome[w].recipe.timers) >= 1

\* a complete_timer task marks the timer completed in this step
CompletedByTask ==
    /\ tasks' # tasks
    /\ tasks' \subseteq tasks
    /\ ~is_completed(timer)
    /\ is_completed(timer')

\* C40: after any sequence of start, pause, resume, cancel and firings of the
\* scheduled complete_timer tasks, complete_timer marks the timer completed
\* only when the timer is active, not paused and its remaining time has
\* reached zero, that is, when it has counted down the duration it was
\* started with; a task scheduled before a pause does not complete the timer
\* early after the resume.
TimerCompletesOnlyWhenDue ==
    [][ CompletedByTask =>
           /\ timer.is_active
           /\ ~is_paused(timer)
           /\ timer.ran >= timer.asked ]_vars

=============================================================================
